---- MODULE Spec2Model ----
(***************************************************************************)
(* Response/error normalization pipeline of the NexuS API v2 response      *)
(* system: correlation middleware, success transformer, exception          *)
(* translator, error categorizer and the masking utility.                  *)
(*                                                                         *)
(* Strings the code inspects (toLowerCase, includes, split) are sequences  *)
(* of one-character strings; opaque identifiers are TLA+ strings.          *)
(***************************************************************************)
EXTENDS Integers, Sequences, FiniteSets, TLC

VARIABLES request, response, logs, clock, uuidCount, fin, fout

vars == <<request, response, logs, clock, uuidCount, fin, fout>>

pipelineVars == <<request, response, logs, clock, uuidCount>>

fnVars == <<fin, fout>>

(***************************************************************************)
(* JavaScript values.  Every value has the same four fields so that any    *)
(* two values can be compared: t is the typeof/shape tag, s the characters *)
(* of a string (or the digits of a number, the word of a boolean), a the   *)
(* items of an array, o the own enumerable entries of an object in         *)
(* insertion order, p the prototype: <<>> while it is the one the value    *)
(* was created with, <<v>> once it was replaced by v (an object or null).  *)
(***************************************************************************)
Undefined == [t |-> "undefined", s |-> <<>>, a |-> <<>>, o |-> <<>>, p |-> <<>>]

Null == [t |-> "null", s |-> <<>>, a |-> <<>>, o |-> <<>>, p |-> <<>>]

Str(cs) == [t |-> "string", s |-> cs, a |-> <<>>, o |-> <<>>, p |-> <<>>]

Num(cs) == [t |-> "number", s |-> cs, a |-> <<>>, o |-> <<>>, p |-> <<>>]

Arr(items) == [t |-> "array", s |-> <<>>, a |-> items, o |-> <<>>, p |-> <<>>]

Obj(entries) == [t |-> "object", s |-> <<>>, a |-> <<>>, o |-> entries, p |-> <<>>]

Entry(key, val) == [k |-> key, v |-> val]

\* typeof v === 'object' && v !== null
IsObjectLike(v) == v.t \in {"object", "array"}

\* JavaScript truthiness of a value
Truthy(v) ==
  CASE v.t \in {"undefined", "null"} -> FALSE
    [] v.t = "string" -> v.s # <<>>
    [] v.t = "number" -> v.s # <<"0">>
    [] v.t = "boolean" -> v.s = <<"t", "r", "u", "e">>
    [] OTHER -> TRUE

(***************************************************************************)
(* String primitives                                                       *)
(***************************************************************************)
UpperChars == <<"A", "B", "C", "D", "E", "F", "G", "H", "I", "J", "K", "L", "M",
                "N", "O", "P", "Q", "R", "S", "T", "U", "V", "W", "X", "Y", "Z">>

LowerChars == <<"a", "b", "c", "d", "e", "f", "g", "h", "i", "j", "k", "l", "m",
                "n", "o", "p", "q", "r", "s", "t", "u", "v", "w", "x", "y", "z">>

\* the lower-case letter of each upper-case letter
LowerOfUpper ==
  [c \in {UpperChars[i] : i \in 1..Len(UpperChars)} |->
     LowerChars[CHOOSE i \in 1..Len(UpperChars) : UpperChars[i] = c]]

LowerChar(c) == IF c \in DOMAIN LowerOfUpper THEN LowerOfUpper[c] ELSE c

\* String.prototype.toLowerCase
toLowerCase(cs) == [i \in 1..Len(cs) |-> LowerChar(cs[i])]

\* String.prototype.includes
includes(cs, sub) ==
  \E i \in 0..(Len(cs) - Len(sub)) : SubSeq(cs, i + 1, i + Len(sub)) = sub

K_database == <<"d", "a", "t", "a", "b", "a", "s", "e">>

K_prisma == <<"p", "r", "i", "s", "m", "a">>

K_sql == <<"s", "q", "l">>

K_connection == <<"c", "o", "n", "n", "e", "c", "t", "i", "o", "n">>

K_timeout == <<"t", "i", "m", "e", "o", "u", "t">>

K_external_service == <<"e", "x", "t", "e", "r", "n", "a", "l", " ", "s", "e", "r", "v", "i", "c", "e">>

K_third_party == <<"t", "h", "i", "r", "d", "-", "p", "a", "r", "t", "y">>

K_upstream == <<"u", "p", "s", "t", "r", "e", "a", "m">>

(***************************************************************************)
(* Error Categorizer                                                       *)
(***************************************************************************)
ErrorCategory == {"VALIDATION", "AUTHENTICATION", "AUTHORIZATION", "NOT_FOUND",
                  "DATABASE", "EXTERNAL_SERVICE", "RATE_LIMIT", "BUSINESS_LOGIC",
                  "INTERNAL", "UNKNOWN"}

\* the switch over exact status codes; "none" when no case matches
ExactStatusCategory(statusCode) ==
  CASE statusCode = 400 -> "VALIDATION"
    [] statusCode = 401 -> "AUTHENTICATION"
    [] statusCode = 403 -> "AUTHORIZATION"
    [] statusCode = 404 -> "NOT_FOUND"
    [] statusCode = 429 -> "RATE_LIMIT"
    [] statusCode = 422 -> "BUSINESS_LOGIC"
    [] OTHER -> "none"

IsDatabaseMessage(lowerMessage) ==
  \/ includes(lowerMessage, K_database)
  \/ includes(lowerMessage, K_prisma)
  \/ includes(lowerMessage, K_sql)
  \/ includes(lowerMessage, K_connection)

IsExternalServiceMessage(lowerMessage) ==
  \/ includes(lowerMessage, K_timeout)
  \/ includes(lowerMessage, K_external_service)
  \/ includes(lowerMessage, K_third_party)
  \/ includes(lowerMessage, K_upstream)

\* mutant: the keyword branch guarded by statusCode >= 400 instead of >= 500
MessageCategory_From400(statusCode, errorMessage) ==
  IF statusCode >= 400 /\ Truthy(errorMessage)
    THEN LET lowerMessage == toLowerCase(errorMessage.s)
         IN  IF IsDatabaseMessage(lowerMessage) THEN "DATABASE"
             ELSE IF IsExternalServiceMessage(lowerMessage) THEN "EXTERNAL_SERVICE"
             ELSE "none"
    ELSE "none"

\* mutant: the external-service keywords tested before the database keywords
MessageCategory_ExternalFirst(statusCode, errorMessage) ==
  IF statusCode >= 500 /\ Truthy(errorMessage)
    THEN LET lowerMessage == toLowerCase(errorMessage.s)
         IN  IF IsExternalServiceMessage(lowerMessage) THEN "EXTERNAL_SERVICE"
             ELSE IF IsDatabaseMessage(lowerMessage) THEN "DATABASE"
             ELSE "none"
    ELSE "none"

\* the message branch guarded by statusCode >= 500 && errorMessage; "none" when
\* the guard fails or no keyword matches
MessageCategory(statusCode, errorMessage) ==
  IF statusCode >= 500 /\ Truthy(errorMessage)
    THEN LET lowerMessage == toLowerCase(errorMessage.s)
         IN  IF IsDatabaseMessage(lowerMessage) THEN "DATABASE"
             ELSE IF IsExternalServiceMessage(lowerMessage) THEN "EXTERNAL_SERVICE"
             ELSE "none"
    ELSE "none"

\* the default mappings for ranges
RangeCategory(statusCode) ==
  IF statusCode >= 400 /\ statusCode < 500 THEN "VALIDATION"
  ELSE IF statusCode >= 500 THEN "INTERNAL"
  ELSE "UNKNOWN"

getErrorCategory(statusCode, errorMessage) ==
  IF ExactStatusCategory(statusCode) # "none"
    THEN ExactStatusCategory(statusCode)
  ELSE IF MessageCategory(statusCode, errorMessage) # "none"
    THEN MessageCategory(statusCode, errorMessage)
  ELSE RangeCategory(statusCode)

(***************************************************************************)
(* Masking Utility                                                         *)
(***************************************************************************)
DEFAULT_SENSITIVE_FIELDS == <<
  <<"p", "a", "s", "s", "w", "o", "r", "d">>,
  <<"p", "a", "s", "s", "w", "o", "r", "d", "C", "o", "n", "f", "i", "r", "m">>,
  <<"c", "u", "r", "r", "e", "n", "t", "P", "a", "s", "s", "w", "o", "r", "d">>,
  <<"n", "e", "w", "P", "a", "s", "s", "w", "o", "r", "d">>,
  <<"t", "o", "k", "e", "n">>,
  <<"a", "c", "c", "e", "s", "s", "T", "o", "k", "e", "n">>,
  <<"r", "e", "f", "r", "e", "s", "h", "T", "o", "k", "e", "n">>,
  <<"s", "e", "c", "r", "e", "t">>,
  <<"a", "p", "i", "K", "e", "y">>,
  <<"a", "p", "i", "_", "k", "e", "y">>,
  <<"a", "u", "t", "h", "o", "r", "i", "z", "a", "t", "i", "o", "n">>,
  <<"c", "r", "e", "d", "i", "t", "C", "a", "r", "d">>,
  <<"c", "r", "e", "d", "i", "t", "_", "c", "a", "r", "d">>,
  <<"c", "a", "r", "d", "N", "u", "m", "b", "e", "r">>,
  <<"c", "a", "r", "d", "_", "n", "u", "m", "b", "e", "r">>,
  <<"c", "v", "v">>,
  <<"s", "s", "n">>,
  <<"s", "o", "c", "i", "a", "l", "S", "e", "c", "u", "r", "i", "t", "y", "N", "u", "m", "b", "e", "r">>,
  <<"p", "i", "n">>,
  <<"o", "t", "p">>,
  <<"v", "e", "r", "i", "f", "i", "c", "a", "t", "i", "o", "n", "C", "o", "d", "e">>,
  <<"p", "r", "i", "v", "a", "t", "e", "K", "e", "y">>,
  <<"p", "r", "i", "v", "a", "t", "e", "_", "k", "e", "y">>
>>

MASK_STRING == <<"*", "*", "*", "M", "A", "S", "K", "E", "D", "*", "*", "*">>

K_proto == <<"_", "_", "p", "r", "o", "t", "o", "_", "_">>

\* obj[key] = value on a plain object literal ([[Set]]): the key __proto__ is the
\* accessor inherited from Object.prototype, so the assignment creates no own
\* property (it replaces the prototype when value is an object or null, and does
\* nothing otherwise); any other key defines or overwrites an own property.
AssignProperty(obj, key, value) ==
  IF key = K_proto
    THEN IF value.t \in {"object", "array", "function", "null"}
           THEN [obj EXCEPT !.p = <<value>>]
           ELSE obj
  ELSE IF \E i \in 1..Len(obj.o) : obj.o[i].k = key
    THEN [obj EXCEPT !.o = [i \in 1..Len(obj.o) |->
                              IF obj.o[i].k = key THEN Entry(key, value)
                              ELSE obj.o[i]]]
  ELSE [obj EXCEPT !.o = Append(obj.o, Entry(key, value))]

\* sensitiveFields.map((f) => f.toLowerCase())
LowerAll(sensitiveFields) ==
  [i \in 1..Len(sensitiveFields) |-> toLowerCase(sensitiveFields[i])]

\* lowerSensitiveFields.includes(lowerKey), lowerKey being key.toLowerCase()
IsSensitiveKey(key, lowerSensitiveFields) ==
  LET lowerKey == toLowerCase(key)
  IN  \E i \in 1..Len(lowerSensitiveFields) : lowerSensitiveFields[i] = lowerKey

RECURSIVE maskSensitiveDataWith(_, _)

RECURSIVE MaskEntries(_, _, _, _)

\* the for-of loop over the entries of Object.entries(data) left, maskedData
\* being the object built so far
MaskEntries(entries, sensitiveFields, lowerSensitiveFields, maskedData) ==
  IF entries = <<>> THEN maskedData
  ELSE LET key == Head(entries).k
           value == Head(entries).v
           masked ==
             IF IsSensitiveKey(key, lowerSensitiveFields) THEN Str(MASK_STRING)
             ELSE IF IsObjectLike(value)
               THEN maskSensitiveDataWith(value, sensitiveFields)
             ELSE value
       IN  MaskEntries(Tail(entries), sensitiveFields, lowerSensitiveFields,
                       AssignProperty(maskedData, key, masked))

maskSensitiveDataWith(data, sensitiveFields) ==
  IF data.t \in {"null", "undefined"} THEN data
  ELSE IF ~IsObjectLike(data) THEN data
  ELSE IF data.t = "array"
    THEN Arr([i \in 1..Len(data.a) |->
                IF IsObjectLike(data.a[i])
                  THEN maskSensitiveDataWith(data.a[i], sensitiveFields)
                  ELSE data.a[i]])
  ELSE MaskEntries(data.o, sensitiveFields, LowerAll(sensitiveFields), Obj(<<>>))

\* maskSensitiveData with the default field set
maskSensitiveData(data) == maskSensitiveDataWith(data, DEFAULT_SENSITIVE_FIELDS)

(***************************************************************************)
(* Requests, responses and the clock                                       *)
(***************************************************************************)
NReq == 1

ClockStart == 1000

SLOW_REQUEST_THRESHOLD_MS == 3000

Reqs == 1..NReq

\* what Date.now() may have advanced by since it was last read
Delays == {0, SLOW_REQUEST_THRESHOLD_MS, SLOW_REQUEST_THRESHOLD_MS + 1}

\* what Date.now() may have advanced by when the middleware reads it
ArrivalDelays == {0, 1}

K_PassWord == <<"P", "a", "s", "s", "W", "o", "r", "d">>

K_name == <<"n", "a", "m", "e">>

V_p1 == <<"p", "1">>

V_Ada == <<"A", "d", "a">>

H_trace == <<"t", "r", "a", "c", "e", "-", "1", "2", "3">>

H_abc == <<"a", "b", "c">>

H_old == <<"o", "l", "d">>

\* shapes of the inbound x-correlation-id header: absent, empty string, string,
\* empty sequence, sequence
CorrelationHeaderShapes ==
  {Undefined, Str(<<>>), Str(H_trace), Arr(<<>>), Arr(<<Str(H_trace), Str(H_abc)>>)}

\* shapes of the inbound x-request-id header (the legacy alias)
RequestIdHeaderShapes ==
  {Undefined, Str(<<>>), Str(H_old), Arr(<<>>), Arr(<<Str(H_abc), Str(H_old)>>)}

SensitiveBody == Obj(<<Entry(K_PassWord, Str(V_p1)), Entry(K_name, Str(V_Ada))>>)

\* the inbound requests tried: method, parsed body, and the language of the
\* active localization context ("none" when no context is active)
RequestShapes ==
  {[method |-> "GET", body |-> Undefined, lang |-> "none"],
   [method |-> "POST", body |-> SensitiveBody, lang |-> "en"],
   [method |-> "POST", body |-> Obj(<<>>), lang |-> "none"],
   [method |-> "DELETE", body |-> SensitiveBody, lang |-> "en"],
   [method |-> "PATCH", body |-> Str(V_p1), lang |-> "tr"],
   [method |-> "PUT", body |-> Obj(<<Entry(K_proto, Obj(<<Entry(K_PassWord, Str(V_p1))>>))>>), lang |-> "en"]}

UuidDigits == <<"1", "2", "3", "4", "5", "6", "7", "8", "9">>

\* the n-th value returned by uuidv4(): values of distinct calls are distinct, and
\* none is a value a client sent
Uuid(n) == Str(<<"u", "u", "i", "d", "-", UuidDigits[n]>>)

NoEnvelope == [success |-> FALSE, statusCode |-> 0, requestId |-> Undefined,
               correlationId |-> Undefined, method |-> "", lang |-> "",
               duration |-> -1, message |-> Undefined, errorCategory |-> "none",
               errors |-> Undefined, data |-> Undefined]

\* no exception has reached the filter
NoException == [kind |-> "none", status |-> 0, res |-> Undefined, message |-> <<>>]

\* a request the server has not received.  result is what the handler returned
\* and caught the exception passed to the filter; duration is the duration the
\* interceptor or the filter measured (-1 before)
AbsentRequest ==
  [pc |-> "absent",
   headers |-> [xCorrelationId |-> Undefined, xRequestId |-> Undefined],
   method |-> "GET", body |-> Undefined, i18nLang |-> "none",
   requestId |-> Undefined, correlationId |-> Undefined, startTime |-> 0,
   nextCalls |-> 0,
   intercepted |-> FALSE, icStartTime |-> 0, icLang |-> "",
   result |-> Undefined, caught |-> NoException, duration |-> -1]

\* IRequestWithRequestId as the server receives it: requestId, correlationId and
\* startTime undefined (startTime 0 stands for undefined: both are falsy, and
\* Date.now() is positive)
ReceivedRequest(corr, legacy, shape) ==
  [AbsentRequest EXCEPT !.pc = "received",
                        !.headers = [xCorrelationId |-> corr, xRequestId |-> legacy],
                        !.method = shape.method, !.body = shape.body,
                        !.i18nLang = shape.lang]

\* the express response: the headers set so far, statusCode (200 until set), the
\* bodies written and the component that wrote them
FreshResponse ==
  [headers |-> [xRequestId |-> Undefined, xCorrelationId |-> Undefined],
   statusCode |-> 200, sent |-> <<>>, writtenBy |-> "none"]

PipelineIdle ==
  /\ request = [r \in Reqs |-> AbsentRequest]
  /\ response = [r \in Reqs |-> FreshResponse]
  /\ logs = [r \in Reqs |-> <<>>]
  /\ clock = ClockStart
  /\ uuidCount = 0

(***************************************************************************)
(* Correlation Middleware                                                  *)
(***************************************************************************)
\* mutant: the legacy alias consulted before the canonical header
IncomingCorrelationId_LegacyFirst(headers) ==
  IF Truthy(headers.xRequestId) THEN headers.xRequestId
  ELSE headers.xCorrelationId

\* req.headers[CORRELATION_ID_HEADER] || req.headers[REQUEST_ID_HEADER]
IncomingCorrelationId(headers) ==
  IF Truthy(headers.xCorrelationId) THEN headers.xCorrelationId
  ELSE headers.xRequestId

\* incomingCorrelationId[0]: undefined for an empty array
FirstElement(arr) == IF Len(arr.a) > 0 THEN arr.a[1] ELSE Undefined

\* the conditional that picks correlationId
ResolveCorrelationId(incomingCorrelationId, requestId) ==
  IF incomingCorrelationId.t = "string" THEN incomingCorrelationId
  ELSE IF incomingCorrelationId.t = "array" THEN FirstElement(incomingCorrelationId)
  ELSE requestId

\* res.setHeader(name, value) throws ERR_HTTP_INVALID_HEADER_VALUE for undefined
SetHeaderThrows(value) == value.t = "undefined"

\* CorrelationIdMiddleware.use: stamps the request, sets the response headers and
\* calls next(); when setHeader throws, next() is not reached
CorrelationIdMiddlewareUse(r) ==
  /\ request[r].pc = "received"
  /\ \E d \in ArrivalDelays :
       LET now == clock + d
           requestId == Uuid(uuidCount + 1)
           correlationId ==
             ResolveCorrelationId(IncomingCorrelationId(request[r].headers), requestId)
           threw == SetHeaderThrows(correlationId)
       IN  /\ clock' = now
           /\ uuidCount' = uuidCount + 1
           /\ request' = [request EXCEPT
                ![r].requestId = requestId,
                ![r].correlationId = correlationId,
                ![r].startTime = now,
                ![r].nextCalls = IF threw THEN 0 ELSE 1,
                ![r].pc = IF threw THEN "middlewareThrew" ELSE "routed"]
           /\ response' = [response EXCEPT
                ![r].headers.xRequestId = requestId,
                ![r].headers.xCorrelationId =
                   IF threw THEN Undefined ELSE correlationId]
  /\ UNCHANGED <<logs, fnVars>>

(***************************************************************************)
(* JavaScript object and string helpers                                    *)
(***************************************************************************)
K_message == <<"m", "e", "s", "s", "a", "g", "e">>

K_error == <<"e", "r", "r", "o", "r">>

K_id == <<"i", "d">>

M_sep == <<",", " ">>

M_NA == <<"N", "/", "A">>

M_Error == <<"E", "r", "r", "o", "r">>

M_ObjectObject == <<"[", "o", "b", "j", "e", "c", "t", " ", "O", "b", "j", "e", "c", "t", "]">>

M_null == <<"n", "u", "l", "l">>

M_RequestSuccessful == <<"R", "e", "q", "u", "e", "s", "t", " ", "s", "u", "c", "c", "e", "s", "s", "f", "u", "l">>

\* the properties every plain object inherits from Object.prototype
ObjectPrototypeMembers == {
  <<"c", "o", "n", "s", "t", "r", "u", "c", "t", "o", "r">>,
  <<"_", "_", "d", "e", "f", "i", "n", "e", "G", "e", "t", "t", "e", "r", "_", "_">>,
  <<"_", "_", "d", "e", "f", "i", "n", "e", "S", "e", "t", "t", "e", "r", "_", "_">>,
  <<"h", "a", "s", "O", "w", "n", "P", "r", "o", "p", "e", "r", "t", "y">>,
  <<"_", "_", "l", "o", "o", "k", "u", "p", "G", "e", "t", "t", "e", "r", "_", "_">>,
  <<"_", "_", "l", "o", "o", "k", "u", "p", "S", "e", "t", "t", "e", "r", "_", "_">>,
  <<"i", "s", "P", "r", "o", "t", "o", "t", "y", "p", "e", "O", "f">>,
  <<"p", "r", "o", "p", "e", "r", "t", "y", "I", "s", "E", "n", "u", "m", "e", "r", "a", "b", "l", "e">>,
  <<"t", "o", "S", "t", "r", "i", "n", "g">>,
  <<"v", "a", "l", "u", "e", "O", "f">>,
  <<"_", "_", "p", "r", "o", "t", "o", "_", "_">>,
  <<"t", "o", "L", "o", "c", "a", "l", "e", "S", "t", "r", "i", "n", "g">>
  }

HasOwn(entries, key) == \E i \in 1..Len(entries) : entries[i].k = key

OwnValue(entries, key) ==
  entries[CHOOSE i \in 1..Len(entries) : entries[i].k = key].v

\* an inherited member of Object.prototype: a truthy value that is no array
InheritedMember == [t |-> "function", s |-> <<>>, a |-> <<>>, o |-> <<>>, p |-> <<>>]

RECURSIVE GetProperty(_, _)

\* obj[key] on a plain object: the own property, else what the prototype chain
\* gives (a member of Object.prototype at its end), else undefined
GetProperty(obj, key) ==
  IF obj.t = "object" /\ HasOwn(obj.o, key) THEN OwnValue(obj.o, key)
  ELSE IF obj.p = <<>>
    THEN IF key \in ObjectPrototypeMembers THEN InheritedMember ELSE Undefined
  ELSE IF key = K_proto THEN obj.p[1]
  ELSE IF obj.p[1].t = "null" THEN Undefined
  ELSE GetProperty(obj.p[1], key)

\* a ?? b
Nullish(v) == v.t \in {"undefined", "null"}

\* a || b
OrElse(a, b) == IF Truthy(a) THEN a ELSE b

\* Object.keys(v).length
KeysLength(v) == IF v.t = "array" THEN Len(v.a) ELSE Len(v.o)

RECURSIVE JoinStrings(_, _)

\* the concatenation of a sequence of strings with a separator between them
JoinStrings(strings, sep) ==
  IF strings = <<>> THEN <<>>
  ELSE IF Len(strings) = 1 THEN strings[1]
  ELSE strings[1] \o sep \o JoinStrings(Tail(strings), sep)

RECURSIVE ArrayJoin(_, _)

\* the string Array.prototype.join gives an element
ElementToString(v) ==
  CASE v.t \in {"undefined", "null"} -> <<>>
    [] v.t \in {"string", "number", "boolean", "bigint"} -> v.s
    [] v.t = "array" -> ArrayJoin(v, <<",">>)
    [] OTHER -> M_ObjectObject

\* Array.prototype.join
ArrayJoin(arr, sep) ==
  JoinStrings([i \in 1..Len(arr.a) |-> ElementToString(arr.a[i])], sep)

Quoted(cs) == <<"\"">> \o cs \o <<"\"">>

RECURSIVE JSONText(_)

\* the entries JSON.stringify writes for an object: those whose value serializes
SerializableEntries(entries) ==
  SelectSeq(entries, LAMBDA e : e.v.t \notin {"undefined", "function"})

\* the text JSON.stringify gives a value that serializes
JSONText(v) ==
  CASE v.t = "string" -> Quoted(v.s)
    [] v.t \in {"number", "boolean"} -> v.s
    [] v.t = "array" ->
         <<"[">> \o JoinStrings([i \in 1..Len(v.a) |->
                      IF v.a[i].t \in {"undefined", "function"} THEN M_null
                      ELSE JSONText(v.a[i])], <<",">>) \o <<"]">>
    [] v.t = "object" ->
         LET es == SerializableEntries(v.o)
         IN  <<"{">> \o JoinStrings([i \in 1..Len(es) |->
                          Quoted(es[i].k) \o <<":">> \o JSONText(es[i].v)], <<",">>)
                    \o <<"}">>
    [] OTHER -> M_null

RECURSIVE JSONThrows(_)

\* JSON.stringify throws a TypeError on a BigInt, wherever it is in the value
JSONThrows(v) ==
  \/ v.t = "bigint"
  \/ \E i \in 1..Len(v.a) : JSONThrows(v.a[i])
  \/ \E i \in 1..Len(v.o) : JSONThrows(v.o[i].v)

\* JSON.stringify: undefined for undefined and for a function
JSONStringify(v) ==
  IF v.t \in {"undefined", "function"} THEN Undefined ELSE Str(JSONText(v))

(***************************************************************************)
(* Log entries and envelopes                                               *)
(***************************************************************************)
\* one call of the logger: by is the component, level the Logger method (log is
\* info severity), alertType "SLOW_REQUEST" for the slow-request alert and "none"
\* for the primary entry, stack "none" when the context has no stack key
LogEntry(by, level, alertType, requestId, correlationId, duration, status, errorCategory, requestBody, stack, tags) ==
  [by |-> by, level |-> level, alertType |-> alertType, requestId |-> requestId,
   correlationId |-> correlationId, duration |-> duration, status |-> status,
   errorCategory |-> errorCategory, requestBody |-> requestBody, stack |-> stack,
   tags |-> tags]

IsPrimary(entry) == entry.alertType = "none"

IsSlowAlert(entry) == entry.alertType = "SLOW_REQUEST"

(***************************************************************************)
(* Success Transformer                                                     *)
(***************************************************************************)
\* i18n?.lang ?? 'tr'
InterceptorLang(i18nLang) == IF i18nLang = "none" THEN "tr" ELSE i18nLang

\* TransformInterceptor.formatMessage
formatMessage(message) ==
  CASE message.t \in {"null", "undefined"} -> Str(M_RequestSuccessful)
    [] message.t = "string" -> message
    [] message.t = "array" -> Str(ArrayJoin(message, M_sep))
    [] message.t \in {"number", "boolean", "bigint"} -> Str(message.s)
    [] message.t \in {"object", "function"} ->
         IF JSONThrows(message) THEN Str(M_RequestSuccessful)
         ELSE JSONStringify(message)
    [] OTHER -> Str(M_RequestSuccessful)

\* const { message: _, ...rest } = dataObj
WithoutMessage(dataObj) ==
  Obj(SelectSeq(dataObj.o, LAMBDA e : e.k # K_message))

\* mutant: the message field stays in data
FinalData_Unchanged(data) == data

\* mutant: the response data is masked like the logged request body
FinalData_Masked(data) ==
  IF data.t = "object" /\ HasOwn(data.o, K_message)
    THEN maskSensitiveData(WithoutMessage(data))
  ELSE IF IsObjectLike(data) THEN maskSensitiveData(data)
  ELSE data

\* finalData: the handler result, without its message field when it is an object
\* and 'message' in dataObj
FinalData(data) ==
  IF data.t = "object" /\ HasOwn(data.o, K_message)
    THEN WithoutMessage(data)
    ELSE data

\* mutant: the body is logged whatever the method is
InterceptorMaskedBody_AnyMethod(method, body) ==
  IF Truthy(body) /\ IsObjectLike(body) THEN maskSensitiveData(body) ELSE Undefined

\* the masked copy of the request body the interceptor logs, undefined when the
\* method is not POST, PUT or PATCH or the body is no object
InterceptorMaskedBody(method, body) ==
  IF method \in {"POST", "PUT", "PATCH"} /\ Truthy(body) /\ IsObjectLike(body)
    THEN maskSensitiveData(body)
    ELSE Undefined

\* hasBody ? { requestBody: maskedBody } : {}
LoggedBody(maskedBody) ==
  IF Truthy(maskedBody) /\ KeysLength(maskedBody) > 0 THEN maskedBody ELSE Undefined

\* logSuccess: one call of logger.log
logSuccess(statusCode, duration, requestId, correlationId, maskedBody) ==
  LogEntry("interceptor", "log", "none", requestId, correlationId, duration,
           statusCode, "none", LoggedBody(maskedBody), "none", {})

\* the slow-request alert of the interceptor
InterceptorSlowAlert(statusCode, duration, requestId, correlationId) ==
  LogEntry("interceptor", "warn", "SLOW_REQUEST", requestId, correlationId,
           duration, statusCode, "none", Undefined, "none", {})

\* the object the map callback returns
SuccessEnvelope(statusCode, requestId, correlationId, method, lang, duration, messageString, finalData) ==
  [NoEnvelope EXCEPT !.success = TRUE, !.statusCode = statusCode,
                     !.requestId = requestId, !.correlationId = correlationId,
                     !.method = method, !.lang = lang, !.duration = duration,
                     !.message = messageString, !.data = finalData]

M_ok == <<"o", "k">>

\* what a handler may return
HandlerResults ==
  {Str(M_ok), Null,
   Obj(<<Entry(K_message, Str(M_ok)), Entry(K_id, Num(<<"7">>))>>),
   Obj(<<Entry(K_id, Num(<<"7">>)), Entry(K_PassWord, Str(V_p1))>>),
   Obj(<<Entry(K_message, Arr(<<Str(M_ok), Str(V_Ada)>>)),
         Entry(K_name, Obj(<<Entry(K_message, Str(V_p1))>>))>>),
   Obj(<<Entry(K_id, Num(<<"7">>)), Entry(K_message, Null)>>),
   Obj(<<Entry(K_message, Num(<<"7">>))>>),
   Obj(<<Entry(K_message, Str(M_ok)),
         Entry(K_name, Arr(<<Obj(<<Entry(K_PassWord, Str(V_p1))>>)>>))>>),
   Arr(<<Num(<<"7">>)>>)}

\* the status the route gives the response before the interceptor's map runs
SuccessStatuses == {200, 201}

\* TransformInterceptor.intercept up to next.handle(): what the closure captures
Intercept(r) ==
  /\ request[r].pc = "routed"
  /\ \E d \in Delays :
       LET now == clock + d
           stamped == request[r].startTime # 0
       IN  /\ clock' = IF stamped THEN clock ELSE now
           /\ request' = [request EXCEPT
                ![r].intercepted = TRUE,
                ![r].icStartTime = IF stamped THEN request[r].startTime ELSE now,
                ![r].icLang = InterceptorLang(request[r].i18nLang),
                ![r].pc = "handling"]
  /\ UNCHANGED <<response, logs, uuidCount, fnVars>>

\* the handler returns data with the response status set, and the map callback
\* of TransformInterceptor.intercept turns it into the response body
TransformMap(r) ==
  /\ request[r].pc = "handling"
  /\ \E data \in HandlerResults, statusCode \in SuccessStatuses, d \in Delays :
       LET now == clock + d
           dataObj == IF IsObjectLike(data) THEN data ELSE Obj(<<>>)
           rawMessage == GetProperty(dataObj, K_message)
           messageString == formatMessage(rawMessage)
           duration == now - request[r].icStartTime
           requestId == OrElse(request[r].requestId, Str(M_NA))
           correlationId == OrElse(request[r].correlationId, requestId)
           maskedBody == InterceptorMaskedBody(request[r].method, request[r].body)
           primary == logSuccess(statusCode, duration, requestId, correlationId,
                                 maskedBody)
           alerts == IF duration > SLOW_REQUEST_THRESHOLD_MS
                       THEN <<InterceptorSlowAlert(statusCode, duration, requestId,
                                                   correlationId)>>
                       ELSE <<>>
           envelope == SuccessEnvelope(statusCode, requestId, correlationId,
                                       request[r].method, request[r].icLang,
                                       duration, messageString, FinalData(data))
       IN  /\ clock' = now
           /\ logs' = [logs EXCEPT ![r] = (@ \o <<primary>>) \o alerts]
           /\ response' = [response EXCEPT
                ![r].statusCode = statusCode,
                ![r].sent = Append(@, envelope),
                ![r].writtenBy = "interceptor"]
           /\ request' = [request EXCEPT ![r].result = data,
                                         ![r].duration = duration,
                                         ![r].pc = "responded"]
  /\ UNCHANGED <<uuidCount, fnVars>>

(***************************************************************************)
(* Exception Translator                                                    *)
(***************************************************************************)
K_general == <<"g", "e", "n", "e", "r", "a", "l">>

T_en == <<"I", "n", "t", "e", "r", "n", "a", "l", " ", "s", "e", "r", "v", "e", "r", " ", "e", "r", "r", "o", "r">>

T_tr == <<"S", "u", "n", "u", "c", "u", " ", "h", "a", "t", "a", "s", "i">>

\* mutant: the filter falls back to 'en'
FilterLang_En(i18nLang) == IF i18nLang = "none" THEN "en" ELSE i18nLang

\* i18n?.lang ?? 'tr'
FilterLang(i18nLang) == IF i18nLang = "none" THEN "tr" ELSE i18nLang

\* this.i18n.translate('common.INTERNAL_SERVER_ERROR', { lang })
translate(lang) == IF lang = "tr" THEN Str(T_tr) ELSE Str(T_en)

\* thrown values: an HttpException with its status and response payload, any
\* other Error with its message, and a value that is no Error
HttpException(status, res) ==
  [kind |-> "HttpException", status |-> status, res |-> res, message |-> <<>>]

PlainError(message) ==
  [kind |-> "Error", status |-> 0, res |-> Undefined, message |-> message]

ThrownValue(value) ==
  [kind |-> "value", status |-> 0, res |-> value, message |-> <<>>]

\* exception instanceof Error
IsError(exception) == exception.kind \in {"HttpException", "Error"}

\* status as catch determines it
ExceptionStatus(exception) ==
  IF exception.kind = "HttpException" THEN exception.status ELSE 500

\* mutant: the payload's error field takes priority over its message field
ExceptionMessage_ErrorFirst(exception, lang) ==
  IF exception.kind = "HttpException"
    THEN LET res == exception.res
         IN  IF IsObjectLike(res)
               THEN LET message == GetProperty(res, K_message)
                        error == GetProperty(res, K_error)
                    IN  IF ~Nullish(error) THEN error
                        ELSE IF ~Nullish(message) THEN message
                        ELSE Str(M_Error)
             ELSE IF res.t = "string" THEN res
             ELSE translate(lang)
  ELSE IF exception.kind = "Error" THEN Str(exception.message)
  ELSE translate(lang)

\* message as catch determines it
ExceptionMessage(exception, lang) ==
  IF exception.kind = "HttpException"
    THEN LET res == exception.res
         IN  IF IsObjectLike(res)
               THEN LET message == GetProperty(res, K_message)
                        error == GetProperty(res, K_error)
                    IN  IF ~Nullish(message) THEN message
                        ELSE IF ~Nullish(error) THEN error
                        ELSE Str(M_Error)
             ELSE IF res.t = "string" THEN res
             ELSE translate(lang)
  ELSE IF exception.kind = "Error" THEN Str(exception.message)
  ELSE translate(lang)

\* Array.isArray(message) ? message.join(', ') : message
MessageStr(message) ==
  IF message.t = "array" THEN Str(ArrayJoin(message, M_sep)) ELSE message

\* msg.split(' ')[0]
FirstSplit(cs) ==
  IF \E i \in 1..Len(cs) : cs[i] = " "
    THEN SubSeq(cs, 1, (CHOOSE i \in 1..Len(cs) :
                          cs[i] = " " /\ \A j \in 1..(i - 1) : cs[j] # " ") - 1)
    ELSE cs

\* msg.split(' ')[0] || 'general'
FieldOf(msg) == IF FirstSplit(msg.s) = <<>> THEN K_general ELSE FirstSplit(msg.s)

RECURSIVE StructureFrom(_, _)

\* the forEach of structureValidationErrors over the messages left, errors being
\* the object built so far; threw when a call in the body throws a TypeError
\* (msg.split on a value that is no string, errors[field].push on a truthy
\* errors[field] that is no array)
StructureFrom(messages, errors) ==
  IF messages = <<>> THEN [threw |-> FALSE, errors |-> errors]
  ELSE LET msg == Head(messages)
       IN  IF msg.t # "string" THEN [threw |-> TRUE, errors |-> errors]
           ELSE LET field == FieldOf(msg)
                    created ==
                      IF ~Truthy(GetProperty(errors, field))
                        THEN AssignProperty(errors, field, Arr(<<>>))
                        ELSE errors
                    target == GetProperty(created, field)
                IN  IF target.t # "array" THEN [threw |-> TRUE, errors |-> created]
                    ELSE StructureFrom(Tail(messages),
                           AssignProperty(created, field,
                                          Arr(Append(target.a, msg))))

\* structureValidationErrors
structureValidationErrors(messages) == StructureFrom(messages.a, Obj(<<>>))

\* mutant: errors is attached to every array message, whatever the category
StructuresErrors_AnyCategory(errorCategory, message) == message.t = "array"

\* whether catch calls structureValidationErrors
StructuresErrors(errorCategory, message) ==
  errorCategory = "VALIDATION" /\ message.t = "array"

\* the masked copy of the request body the filter logs
FilterMaskedBody(body) ==
  IF Truthy(body) /\ IsObjectLike(body) THEN maskSensitiveData(body) ELSE Undefined

\* exception instanceof Error ? exception.stack : undefined
StackOf(exception) == IF IsError(exception) THEN "stack" ELSE "undefined"

\* logByCategory: the level, the stack and the tags of the primary entry
logByCategory(status, category, exception) ==
  IF status >= 500
    THEN [level |-> "error", stack |-> StackOf(exception), tags |-> {}]
  ELSE IF status = 404 THEN [level |-> "warn", stack |-> "none", tags |-> {}]
  ELSE IF status = 401 \/ status = 403
    THEN [level |-> "warn", stack |-> "none", tags |-> {"securityAlert"}]
  ELSE IF status = 429
    THEN [level |-> "warn", stack |-> "none", tags |-> {"rateLimitAlert"}]
  ELSE IF status >= 400
    THEN IF category = "VALIDATION"
           THEN [level |-> "log", stack |-> "none", tags |-> {}]
           ELSE [level |-> "warn", stack |-> "none", tags |-> {}]
  ELSE [level |-> "log", stack |-> "none", tags |-> {}]

\* mutant: the envelope reports 500 whatever status is sent
ErrorEnvelope_Always500(status, requestId, correlationId, method, lang, message, errorCategory, errors) ==
  [NoEnvelope EXCEPT !.success = FALSE, !.statusCode = 500,
                     !.requestId = requestId, !.correlationId = correlationId,
                     !.method = method, !.lang = lang, !.message = message,
                     !.errorCategory = errorCategory, !.errors = errors]

\* errorResponse; errors is undefined when the envelope has no errors field
ErrorEnvelope(status, requestId, correlationId, method, lang, message, errorCategory, errors) ==
  [NoEnvelope EXCEPT !.success = FALSE, !.statusCode = status,
                     !.requestId = requestId, !.correlationId = correlationId,
                     !.method = method, !.lang = lang, !.message = message,
                     !.errorCategory = errorCategory, !.errors = errors]

M_email == <<"e", "m", "a", "i", "l", " ", "m", "u", "s", "t", " ", "b", "e", " ", "a", "n", " ", "e", "m", "a", "i", "l">>

M_password == <<"p", "a", "s", "s", "w", "o", "r", "d", " ", "t", "o", "o", " ", "s", "h", "o", "r", "t">>

M_constructor == <<"c", "o", "n", "s", "t", "r", "u", "c", "t", "o", "r", " ", "m", "u", "s", "t", " ", "b", "e", " ", "a", " ", "s", "t", "r", "i", "n", "g">>

M_BadRequest == <<"B", "a", "d", " ", "R", "e", "q", "u", "e", "s", "t">>

M_boom == <<"b", "o", "o", "m">>

M_conn_refused == <<"c", "o", "n", "n", "e", "c", "t", "i", "o", "n", " ", "r", "e", "f", "u", "s", "e", "d">>

M_InvalidHeader == <<"I", "n", "v", "a", "l", "i", "d", " ", "v", "a", "l", "u", "e", " ", "\"", "u", "n", "d", "e", "f", "i", "n", "e", "d", "\"", " ", "f", "o", "r", " ", "h", "e", "a", "d", "e", "r", " ", "\"", "x", "-", "c", "o", "r", "r", "e", "l", "a", "t", "i", "o", "n", "-", "i", "d", "\"">>

\* the statuses of the classified failures tried
HttpStatuses == {400, 401, 409, 500}

\* the payloads of the classified failures tried: a string, and mappings with a
\* string message, arrays of messages, only error, and neither
HttpPayloads ==
  {Str(M_BadRequest),
   Obj(<<Entry(K_message, Str(M_conn_refused))>>),
   Obj(<<Entry(K_message, Arr(<<Str(M_email), Str(M_password)>>)),
         Entry(K_error, Str(M_BadRequest))>>),
   Obj(<<Entry(K_message, Arr(<<Str(M_constructor)>>)),
         Entry(K_error, Str(M_BadRequest))>>),
   Obj(<<Entry(K_message, Arr(<<Str(M_boom), Str(M_conn_refused)>>))>>),
   Obj(<<Entry(K_error, Str(M_BadRequest))>>),
   Obj(<<>>)}

\* further statuses, tried with a string payload only
OtherHttpStatuses == {200, 399, 403, 404, 422, 429, 503}

\* what application logic may throw
Exceptions ==
  {HttpException(st, res) : st \in HttpStatuses, res \in HttpPayloads}
    \cup {HttpException(st, Str(M_boom)) : st \in OtherHttpStatuses}
    \cup {PlainError(M_boom), PlainError(M_conn_refused)}
    \cup {ThrownValue(Str(M_boom)), ThrownValue(Null)}

\* the TypeError res.setHeader throws in the middleware
InvalidHeaderError == PlainError(M_InvalidHeader)

\* what a guard or the router may throw before the interceptor starts
EarlyExceptions ==
  {HttpException(401, Obj(<<Entry(K_message, Str(M_boom))>>)),
   HttpException(404, Str(M_boom))}

\* what reaches the filter for request r: the middleware's own failure, a
\* failure before the interceptor started, or a failure of the handler
ThrownIn(r) ==
  IF request[r].pc = "middlewareThrew" THEN {InvalidHeaderError}
  ELSE IF request[r].pc = "routed" THEN EarlyExceptions
  ELSE Exceptions

\* AllExceptionsFilter.catch(exception, host) for an exception thrown while
\* mutant: the duration is measured from startTime even when it was not stamped
FilterDuration_NoFallback(startTime, now) == now - startTime

\* request.startTime ? Date.now() - request.startTime : 0
FilterDuration(startTime, now) == IF startTime # 0 THEN now - startTime ELSE 0

\* request r is handled.  When structureValidationErrors throws, catch rejects
\* before it logs or writes anything.
Catch(r) ==
  /\ request[r].pc \in {"routed", "handling", "middlewareThrew"}
  /\ \E exception \in ThrownIn(r), d \in Delays :
       LET now == clock + d
           lang == FilterLang(request[r].i18nLang)
           requestId == OrElse(request[r].requestId, Str(M_NA))
           correlationId == OrElse(request[r].correlationId, requestId)
           duration == FilterDuration(request[r].startTime, now)
           maskedBody == FilterMaskedBody(request[r].body)
           status == ExceptionStatus(exception)
           message == ExceptionMessage(exception, lang)
           messageStr == MessageStr(message)
           errorCategory == getErrorCategory(status, messageStr)
           structured == IF StructuresErrors(errorCategory, message)
                           THEN structureValidationErrors(message)
                           ELSE [threw |-> FALSE, errors |-> Undefined]
           errorResponse == ErrorEnvelope(status, requestId, correlationId,
                                          request[r].method, lang, message,
                                          errorCategory, structured.errors)
           how == logByCategory(status, errorCategory, exception)
           primary == LogEntry("filter", how.level, "none", requestId,
                               correlationId, duration, status, errorCategory,
                               LoggedBody(maskedBody), how.stack, how.tags)
           alerts == IF duration > SLOW_REQUEST_THRESHOLD_MS
                       THEN <<LogEntry("filter", "warn", "SLOW_REQUEST", requestId,
                                       correlationId, duration, status,
                                       errorCategory, LoggedBody(maskedBody),
                                       "none", {})>>
                       ELSE <<>>
       IN  /\ clock' = now
           /\ IF structured.threw
                THEN /\ request' = [request EXCEPT ![r].caught = exception,
                                                   ![r].duration = duration,
                                                   ![r].pc = "filterThrew"]
                     /\ UNCHANGED <<logs, response>>
                ELSE /\ logs' = [logs EXCEPT ![r] = (@ \o <<primary>>) \o alerts]
                     /\ response' = [response EXCEPT
                          ![r].statusCode = status,
                          ![r].sent = Append(@, errorResponse),
                          ![r].writtenBy = "filter"]
                     /\ request' = [request EXCEPT ![r].caught = exception,
                                                   ![r].duration = duration,
                                                   ![r].pc = "responded"]
  /\ UNCHANGED <<uuidCount, fnVars>>

(***************************************************************************)
(* The request pipeline: middleware, application logic, then the           *)
(* interceptor's map or the filter                                         *)
(***************************************************************************)
\* one request is received; the others never arrive
Init ==
  /\ response = [r \in Reqs |-> FreshResponse]
  /\ logs = [r \in Reqs |-> <<>>]
  /\ clock = ClockStart
  /\ uuidCount = 0
  /\ fin = [op |-> "none"]
  /\ fout = [done |-> FALSE, v |-> Null]
  /\ \E corr \in CorrelationHeaderShapes, legacy \in RequestIdHeaderShapes,
        shape \in RequestShapes :
       request = [r \in Reqs |->
                    IF r = 1 THEN ReceivedRequest(corr, legacy, shape)
                    ELSE AbsentRequest]

Next ==
  \E r \in Reqs :
    \/ CorrelationIdMiddlewareUse(r)
    \/ Intercept(r)
    \/ TransformMap(r)
    \/ Catch(r)

Spec == Init /\ [][Next]_vars

(***************************************************************************)
(* The interceptor and the filter on a request the middleware has not      *)
(* stamped: requestId, correlationId and startTime are undefined           *)
(***************************************************************************)
InitUnstamped ==
  /\ fin = [op |-> "none"]
  /\ fout = [done |-> FALSE, v |-> Null]
  /\ clock = ClockStart
  /\ uuidCount = 0
  /\ response = [r \in Reqs |-> FreshResponse]
  /\ logs = [r \in Reqs |-> <<>>]
  /\ \E shape \in RequestShapes :
       request = [r \in Reqs |->
                    IF r = 1
                      THEN [ReceivedRequest(Undefined, Undefined, shape) EXCEPT !.pc = "routed"]
                      ELSE AbsentRequest]

NextUnstamped ==
  \E r \in Reqs :
    \/ Intercept(r)
    \/ TransformMap(r)
    \/ Catch(r)

SpecUnstamped == InitUnstamped /\ [][NextUnstamped]_vars

(***************************************************************************)
(* Concurrently handled requests: the server has received NConcurrent      *)
(* requests, and the event loop runs the middleware, the interceptor, its  *)
(* map callback and the filter of the requests in any order                *)
(***************************************************************************)
NConcurrent == 2

InitConcurrent ==
  /\ fin = [op |-> "none"]
  /\ fout = [done |-> FALSE, v |-> Null]
  /\ clock = ClockStart
  /\ uuidCount = 0
  /\ response = [r \in 1..NConcurrent |-> FreshResponse]
  /\ logs = [r \in 1..NConcurrent |-> <<>>]
  /\ \E corr \in [1..NConcurrent -> {Undefined, Str(H_trace), Arr(<<>>)}] :
       request = [r \in 1..NConcurrent |->
                    ReceivedRequest(corr[r], Undefined,
                      IF r % 2 = 1
                        THEN [method |-> "GET", body |-> Undefined, lang |-> "none"]
                        ELSE [method |-> "POST", body |-> SensitiveBody, lang |-> "en"])]

\* the steps of the requests, with the handler results, the exceptions and the
\* delays narrowed to a few of those of the single-request pipeline
NextConcurrent ==
  \E r \in DOMAIN request :
    \/ CorrelationIdMiddlewareUse(r)
    \/ Intercept(r)
    \/ /\ TransformMap(r)
       /\ request'[r].result \in {Str(M_ok), Obj(<<Entry(K_message, Str(M_ok)), Entry(K_id, Num(<<"7">>))>>)}
       /\ response'[r].statusCode = 200
       /\ clock' - clock \in {0, SLOW_REQUEST_THRESHOLD_MS + 1}
    \/ /\ Catch(r)
       /\ request'[r].caught \in {InvalidHeaderError, PlainError(M_boom), HttpException(404, Str(M_boom))}
       /\ clock' - clock \in {0, SLOW_REQUEST_THRESHOLD_MS + 1}

SpecConcurrent == InitConcurrent /\ [][NextConcurrent]_vars

(***************************************************************************)
(* Client Address Resolver                                                 *)
(***************************************************************************)
\* the proxy headers getClientIpInfo reads, in the order it reads them
IpHeaders ==
  <<"x-forwarded-for", "x-real-ip", "cf-connecting-ip", "true-client-ip", "x-client-ip">>

K_ffff == <<":", ":", "f", "f", "f", "f", ":">>

A_lo4 == <<"1", "2", "7", ".", "0", ".", "0", ".", "1">>

A_lo6 == <<":", ":", "1">>

\* String.prototype.trim
trim(cs) ==
  LET kept == {i \in 1..Len(cs) : cs[i] \notin {" ", "\t", "\n", "\r"}}
  IN  IF kept = {} THEN <<>>
      ELSE SubSeq(cs, CHOOSE i \in kept : \A j \in kept : i <= j,
                      CHOOSE i \in kept : \A j \in kept : i >= j)

RECURSIVE split(_, _)

\* String.prototype.split on a one-character separator
split(cs, sep) ==
  IF \E i \in 1..Len(cs) : cs[i] = sep
    THEN LET first == CHOOSE i \in 1..Len(cs) :
                        cs[i] = sep /\ \A j \in 1..(i - 1) : cs[j] # sep
         IN  <<SubSeq(cs, 1, first - 1)>> \o split(SubSeq(cs, first + 1, Len(cs)), sep)
    ELSE <<cs>>

\* String.prototype.startsWith
startsWith(cs, prefix) ==
  Len(cs) >= Len(prefix) /\ SubSeq(cs, 1, Len(prefix)) = prefix

RECURSIVE AddAll(_, _)

\* Set.prototype.add of each item in turn: ips keeps insertion order, an item
\* already in it is not added again
AddAll(ips, items) ==
  IF items = <<>> THEN ips
  ELSE AddAll(IF \E i \in 1..Len(ips) : ips[i] = Head(items)
                THEN ips ELSE Append(ips, Head(items)),
              Tail(items))

\* what one proxy header contributes: the trimmed parts of a string split on
\* commas, the trimmed elements of an array, nothing when the value is falsy
HeaderCandidates(value) ==
  IF ~Truthy(value) THEN <<>>
  ELSE IF value.t = "string"
    THEN LET parts == split(value.s, ",")
         IN  [i \in 1..Len(parts) |-> trim(parts[i])]
  ELSE IF value.t = "array"
    THEN [i \in 1..Len(value.a) |-> trim(value.a[i].s)]
  ELSE <<>>

RECURSIVE HeaderIps(_, _, _)

\* the loop over the proxy headers from the n-th on
HeaderIps(headers, n, ips) ==
  IF n > Len(IpHeaders) THEN ips
  ELSE HeaderIps(headers, n + 1, AddAll(ips, HeaderCandidates(headers[IpHeaders[n]])))

\* the set ips after request.ip and request.socket?.remoteAddress were added
CollectIps(req) ==
  LET fromHeaders == HeaderIps(req.headers, 1, <<>>)
      withIp == IF Truthy(req.ip) THEN AddAll(fromHeaders, <<req.ip.s>>)
                ELSE fromHeaders
  IN  IF Truthy(req.remoteAddress) THEN AddAll(withIp, <<req.remoteAddress.s>>)
      ELSE withIp

RECURSIVE ClassifyIps(_, _, _)

\* ips.forEach: the two slots after the candidates left were classified
ClassifyIps(ips, ipv4, ipv6) ==
  IF ips = <<>> THEN [ipv4 |-> ipv4, ipv6 |-> ipv6]
  ELSE LET cleanIp == Head(ips)
       IN  IF startsWith(cleanIp, K_ffff)
             THEN ClassifyIps(Tail(ips),
                    IF ipv4 = <<>> THEN SubSeq(cleanIp, 8, Len(cleanIp)) ELSE ipv4,
                    ipv6)
           ELSE IF includes(cleanIp, <<":">>)
             THEN ClassifyIps(Tail(ips), ipv4, IF ipv6 = <<>> THEN cleanIp ELSE ipv6)
           ELSE IF includes(cleanIp, <<".">>)
             THEN ClassifyIps(Tail(ips), IF ipv4 = <<>> THEN cleanIp ELSE ipv4, ipv6)
           ELSE ClassifyIps(Tail(ips), ipv4, ipv6)

\* mutant: the loopback IPv6 address forces the IPv4 slot even when it is filled
LocalhostDefaults_Overwriting(slots) ==
  LET ipv4 == IF slots.ipv6 = A_lo6 THEN A_lo4 ELSE slots.ipv4
      ipv6 == IF ipv4 = A_lo4 /\ slots.ipv6 = <<>> THEN A_lo6 ELSE slots.ipv6
  IN  [ipv4 |-> ipv4, ipv6 |-> ipv6]

\* the special case for localhost: the two assignments in their order
LocalhostDefaults(slots) ==
  LET ipv4 == IF slots.ipv6 = A_lo6 /\ slots.ipv4 = <<>> THEN A_lo4 ELSE slots.ipv4
      ipv6 == IF ipv4 = A_lo4 /\ slots.ipv6 = <<>> THEN A_lo6 ELSE slots.ipv6
  IN  [ipv4 |-> ipv4, ipv6 |-> ipv6]

\* displayParts.length > 0 ? displayParts.join('\n ') : 'unknown'
IpDisplay(ipv4, ipv6) ==
  LET displayParts ==
        (IF ipv6 # <<>> THEN << <<"I", "P", "v", "6", ":", " ">> \o ipv6 >> ELSE <<>>)
          \o (IF ipv4 # <<>> THEN << <<"I", "P", "v", "4", ":", " ">> \o ipv4 >> ELSE <<>>)
  IN  IF Len(displayParts) > 0 THEN JoinStrings(displayParts, <<"\n", " ">>)
      ELSE <<"u", "n", "k", "n", "o", "w", "n">>

\* getClientIpInfo
getClientIpInfo(req) ==
  LET slots == LocalhostDefaults(ClassifyIps(CollectIps(req), <<>>, <<>>))
  IN  [ipv4 |-> slots.ipv4, ipv6 |-> slots.ipv6,
       display |-> IpDisplay(slots.ipv4, slots.ipv6)]

(***************************************************************************)
(* Inputs of the pure functions                                            *)
(***************************************************************************)
MaxDepth == 3

MaxStatus == 700

DocLeaves == {Str(V_p1), Null}

DocKeys == {K_PassWord, K_name, K_proto}

RECURSIVE Docs(_)

\* nested mappings and sequences up to depth d: empty and one-entry mappings and
\* sequences over the structures of depth d-1, and two-entry ones whose other
\* entry is a scalar
Docs(d) ==
  IF d = 0 THEN DocLeaves
  ELSE LET sub == Docs(d - 1)
       IN  DocLeaves \cup {Obj(<<>>), Arr(<<>>)}
             \cup {Obj(<<Entry(k, v)>>) : k \in DocKeys, v \in sub}
             \cup UNION {{Obj(<<Entry(k1, v), Entry(k2, Str(V_Ada))>>) :
                             k2 \in DocKeys \ {k1}, v \in sub} : k1 \in DocKeys}
             \cup {Arr(<<v>>) : v \in sub}
             \cup {Arr(<<v, Str(V_Ada)>>) : v \in sub}

M_timeout_upstream == <<"r", "e", "q", "u", "e", "s", "t", " ", "t", "i", "m", "e", "o", "u", "t", " ", "t", "o", " ", "u", "p", "s", "t", "r", "e", "a", "m">>

M_Database_down == <<"D", "a", "t", "a", "b", "a", "s", "e", " ", "d", "o", "w", "n">>

M_SQL == <<"S", "Q", "L">>

M_Prisma == <<"P", "R", "I", "S", "M", "A">>

M_ThirdParty == <<"T", "h", "i", "r", "d", "-", "P", "a", "r", "t", "y">>

M_ExtService == <<"E", "x", "t", "e", "r", "n", "a", "l", " ", "S", "e", "r", "v", "i", "c", "e">>

M_both == <<"u", "p", "s", "t", "r", "e", "a", "m", " ", "d", "a", "t", "a", "b", "a", "s", "e">>

M_near == <<"d", "a", "t", "a", " ", "b", "a", "s", "e", " ", "t", "i", "m", "e", " ", "o", "u", "t">>

\* the errorMessage arguments tried: absent, empty, and texts with and without
\* keywords in either letter case
CategoryMessages ==
  {Undefined, Str(<<>>), Str(M_boom), Str(M_conn_refused), Str(M_timeout_upstream),
   Str(M_Database_down), Str(M_SQL), Str(M_Prisma), Str(M_ThirdParty),
   Str(M_ExtService), Str(M_both), Str(M_near)}

\* the x-forwarded-for values tried: absent, empty, a comma-separated list, a
\* padded address, an IPv4-mapped prefix with nothing after it, two IPv6
\* addresses, and arrays (one element holding a list, two elements, none)
ForwardedForShapes ==
  {Undefined,
   Str(<<>>),
   Str(<<"2", "0", "3", ".", "0", ".", "1", "1", "3", ".", "5", ",", " ", "1", "0", ".", "0", ".", "0", ".", "1">>),
   Str(<<" ", ":", ":", "1", " ">>),
   Str(<<":", ":", "f", "f", "f", "f", ":", ",", " ", "1", "0", ".", "0", ".", "0", ".", "1">>),
   Str(<<" ", "a", ":", ":", "b", ",", ":", ":", "1">>),
   Arr(<<Str(<<"2", "0", "3", ".", "0", ".", "1", "1", "3", ".", "5", ",", " ", "1", "0", ".", "0", ".", "0", ".", "1">>)>>),
   Arr(<<Str(<<" ", "a", ":", ":", "b">>), Str(<<"1", "0", ".", "0", ".", "0", ".", "1", " ">>)>>),
   Arr(<<>>)}

\* the requests getClientIpInfo is called on: ip is request.ip and remoteAddress
\* is request.socket?.remoteAddress
IpRequests ==
  {[headers |-> [h \in {IpHeaders[i] : i \in 1..Len(IpHeaders)} |->
                   CASE h = "x-forwarded-for" -> xff
                     [] h = "x-real-ip" -> real
                     [] h = "cf-connecting-ip" -> cf
                     [] h = "true-client-ip" -> tc
                     [] OTHER -> xc],
    ip |-> ip, remoteAddress |-> remote] :
     xff \in ForwardedForShapes,
     real \in {Undefined, Str(<<":", ":", "f", "f", "f", "f", ":", "1", ".", "2", ".", "3", ".", "4">>), Str(<<"l", "o", "c", "a", "l", "h", "o", "s", "t">>)},
     cf \in {Undefined, Str(<<"a", ":", ":", "b">>)},
     tc \in {Undefined, Str(<<"1", ".", "2", ".", "3", ".", "4">>)},
     xc \in {Undefined, Str(A_lo4)},
     ip \in {Undefined, Str(A_lo6), Str(A_lo4), Str(K_ffff \o A_lo4), Str(<<"1", ".", "2", ".", "3", ".", "4">>)},
     remote \in {Undefined, Str(A_lo6), Str(<<"a", ":", ":", "b">>)}}

MaxMessages == 3

\* the validation messages tried: two with the same first word, one with another,
\* one with a leading space, one whose words are separated by a tab, two whose
\* first word names a member of Object.prototype, and the empty message
ValidationMessages ==
  {Str(M_email),
   Str(<<"e", "m", "a", "i", "l", " ", "i", "s", " ", "r", "e", "q", "u", "i", "r", "e", "d">>),
   Str(M_password),
   Str(<<" ", "n", "a", "m", "e", " ", "m", "i", "s", "s", "i", "n", "g">>),
   Str(<<"n", "a", "m", "e", "\t", "m", "i", "s", "s", "i", "n", "g">>),
   Str(M_constructor),
   Str(<<"t", "o", "S", "t", "r", "i", "n", "g", " ", "x">>),
   Str(<<>>)}

\* the messages formatMessage is called on: absent, strings, sequences, a
\* number, a boolean, a BigInt, mappings (one holding a function, one holding a
\* BigInt) and a function
FormatInputs ==
  {Null, Undefined, Str(<<>>), Str(M_ok),
   Arr(<<>>), Arr(<<Str(M_ok), Str(V_Ada)>>), Arr(<<Num(<<"7">>), Null, Obj(<<>>)>>),
   Num(<<"7">>), Num(<<"0">>),
   [Str(<<"t", "r", "u", "e">>) EXCEPT !.t = "boolean"],
   [Str(<<"f", "a", "l", "s", "e">>) EXCEPT !.t = "boolean"],
   [Num(<<"7">>) EXCEPT !.t = "bigint"],
   Obj(<<>>),
   Obj(<<Entry(K_id, Num(<<"7">>)), Entry(K_name, Str(V_Ada))>>),
   Obj(<<Entry(K_id, Arr(<<Null, Str(M_ok)>>))>>),
   Obj(<<Entry(K_name, InheritedMember), Entry(K_id, Num(<<"7">>))>>),
   Obj(<<Entry(K_id, Arr(<<[Num(<<"7">>) EXCEPT !.t = "bigint"]>>))>>),
   InheritedMember}

NotCalled == [done |-> FALSE, v |-> Null]

Returned(value) == [done |-> TRUE, v |-> value]

InitFn ==
  /\ PipelineIdle
  /\ fout = NotCalled
  /\ \/ \E st \in 0..MaxStatus, m \in CategoryMessages :
          fin = [op |-> "getErrorCategory", statusCode |-> st, errorMessage |-> m]
     \/ \E d \in Docs(MaxDepth) :
          fin = [op |-> "maskSensitiveData", data |-> d]
     \/ \E req \in IpRequests :
          fin = [op |-> "getClientIpInfo", request |-> req]
     \/ \E message \in FormatInputs :
          fin = [op |-> "formatMessage", message |-> message]
     \/ \E n \in 0..MaxMessages : \E messages \in [1..n -> ValidationMessages] :
          fin = [op |-> "structureValidationErrors", messages |-> Arr(messages)]

CallGetErrorCategory ==
  /\ fin.op = "getErrorCategory"
  /\ ~fout.done
  /\ fout' = Returned(getErrorCategory(fin.statusCode, fin.errorMessage))
  /\ UNCHANGED <<fin, pipelineVars>>

CallMaskSensitiveData ==
  /\ fin.op = "maskSensitiveData"
  /\ ~fout.done
  /\ fout' = Returned(maskSensitiveData(fin.data))
  /\ UNCHANGED <<fin, pipelineVars>>

\* getClientIpInfo(request); classified holds the two slots as they are when
\* the forEach over the candidates ends
CallGetClientIpInfo ==
  /\ fin.op = "getClientIpInfo"
  /\ ~fout.done
  /\ fout' = [done |-> TRUE, v |-> getClientIpInfo(fin.request),
              classified |-> ClassifyIps(CollectIps(fin.request), <<>>, <<>>)]
  /\ UNCHANGED <<fin, pipelineVars>>

\* maskSensitiveData called on what the first call returned
CallMaskSensitiveDataAgain ==
  /\ fin.op = "maskSensitiveData"
  /\ fout.done
  /\ "again" \notin DOMAIN fout
  /\ fout' = [done |-> TRUE, v |-> fout.v, again |-> maskSensitiveData(fout.v)]
  /\ UNCHANGED <<fin, pipelineVars>>

\* structureValidationErrors(messages); threw when the call ends in a TypeError
CallStructureValidationErrors ==
  /\ fin.op = "structureValidationErrors"
  /\ ~fout.done
  /\ LET returned == structureValidationErrors(fin.messages)
     IN  fout' = [done |-> TRUE, v |-> returned.errors, threw |-> returned.threw]
  /\ UNCHANGED <<fin, pipelineVars>>

CallFormatMessage ==
  /\ fin.op = "formatMessage"
  /\ ~fout.done
  /\ fout' = Returned(formatMessage(fin.message))
  /\ UNCHANGED <<fin, pipelineVars>>

NextFn ==
  \/ CallFormatMessage
  \/ CallStructureValidationErrors
  \/ CallGetErrorCategory
  \/ CallMaskSensitiveData
  \/ CallMaskSensitiveDataAgain
  \/ CallGetClientIpInfo

SpecFn == InitFn /\ [][NextFn]_vars

(***************************************************************************)
(* Properties of the pure functions (checked under SpecFn)                 *)
(***************************************************************************)
CategoryCalled == fin.op = "getErrorCategory" /\ fout.done

MaskCalled == fin.op = "maskSensitiveData" /\ fout.done

\* a key that equals one of the default sensitive names, letter case ignored
SensitiveName(key) ==
  \E i \in 1..Len(DEFAULT_SENSITIVE_FIELDS) :
    toLowerCase(key) = toLowerCase(DEFAULT_SENSITIVE_FIELDS[i])

IsScalar(v) == ~IsObjectLike(v)

RECURSIVE MaskedAsClaimed(_, _)

\* y is x with the marker under every sensitive key, at every depth, and with
\* every other scalar of x found in y at the same path
MaskedAsClaimed(x, y) ==
  CASE x.t = "object" ->
         /\ y.t = "object"
         /\ \A i \in 1..Len(x.o) :
              \E j \in 1..Len(y.o) :
                /\ y.o[j].k = x.o[i].k
                /\ IF SensitiveName(x.o[i].k)
                     THEN y.o[j].v = Str(MASK_STRING)
                     ELSE MaskedAsClaimed(x.o[i].v, y.o[j].v)
    [] x.t = "array" ->
         /\ y.t = "array"
         /\ Len(y.a) = Len(x.a)
         /\ \A i \in 1..Len(x.a) : MaskedAsClaimed(x.a[i], y.a[i])
    [] OTHER -> y = x

\* C1: maskSensitiveData(x) has the marker '***MASKED***' under every key that
\* is a sensitive name (case-insensitively) at every depth, mappings inside
\* sequences included, and every non-sensitive scalar value of x at the same path.
C1_MaskingContract == MaskCalled => MaskedAsClaimed(fin.data, fout.v)

\* the category the status alone gives to a 4xx status
ClientErrorCategory(statusCode) ==
  CASE statusCode = 400 -> "VALIDATION"
    [] statusCode = 401 -> "AUTHENTICATION"
    [] statusCode = 403 -> "AUTHORIZATION"
    [] statusCode = 404 -> "NOT_FOUND"
    [] statusCode = 429 -> "RATE_LIMIT"
    [] statusCode = 422 -> "BUSINESS_LOGIC"
    [] OTHER -> "VALIDATION"

\* C8: for every status code in 400..499 the category is determined by the
\* status alone, whatever the message: 400 VALIDATION, 401 AUTHENTICATION,
\* 403 AUTHORIZATION, 404 NOT_FOUND, 429 RATE_LIMIT, 422 BUSINESS_LOGIC and every
\* other 4xx VALIDATION.
C8_ClientErrorByStatusAlone ==
  (CategoryCalled /\ fin.statusCode \in 400..499)
    => fout.v = ClientErrorCategory(fin.statusCode)

\* a 4xx status other than the six exact ones, categorized with a message that
\* contains the keyword 'database'
C8_Witness ==
  /\ CategoryCalled
  /\ fin.statusCode = 409
  /\ fin.errorMessage = Str(M_Database_down)
  /\ fout.v = "VALIDATION"

ContainsAnyIgnoringCase(message, keywords) ==
  /\ message.t = "string"
  /\ \E k \in keywords : includes(toLowerCase(message.s), k)

DatabaseKeywords == {K_database, K_prisma, K_sql, K_connection}

ExternalServiceKeywords == {K_timeout, K_external_service, K_third_party, K_upstream}

\* C9: for every status code in 500..599, a message containing (case-
\* insensitively) database/prisma/sql/connection gives DATABASE; otherwise one
\* containing timeout/external service/third-party/upstream gives
\* EXTERNAL_SERVICE; otherwise (no keyword, empty or absent message) INTERNAL.
\* A message matching both keyword sets gives DATABASE.
C9_ServerErrorByMessage ==
  (CategoryCalled /\ fin.statusCode \in 500..599)
    => fout.v =
         IF ContainsAnyIgnoringCase(fin.errorMessage, DatabaseKeywords)
           THEN "DATABASE"
         ELSE IF ContainsAnyIgnoringCase(fin.errorMessage, ExternalServiceKeywords)
           THEN "EXTERNAL_SERVICE"
         ELSE "INTERNAL"

\* a 5xx status categorized with a message that matches both keyword sets
C9_Witness ==
  /\ CategoryCalled
  /\ fin.statusCode = 503
  /\ fin.errorMessage = Str(M_both)
  /\ fout.v = "DATABASE"

\* C10: getErrorCategory returns exactly one category for every status code, and
\* UNKNOWN for every status code that is neither 4xx nor 5xx (below 400, or 600
\* and above), whatever the message.
C10_TotalAndUnknownOutside4xx5xx ==
  CategoryCalled
    => /\ fout.v \in ErrorCategory
       /\ (fin.statusCode < 400 \/ fin.statusCode >= 600) => fout.v = "UNKNOWN"

(***************************************************************************)
(* Properties of the request pipeline (checked under Spec)                 *)
(***************************************************************************)
\* the middleware has run for request r
Stamped(r) == request[r].requestId # Undefined

\* the filter has been invoked for request r
FilterInvoked(r) == request[r].caught # NoException

\* no step is left for request r
Finished(r) == request[r].pc \in {"responded", "filterThrew"}

PrimaryCount(r) == Len(SelectSeq(logs[r], IsPrimary))

SlowAlertCount(r) == Len(SelectSeq(logs[r], IsSlowAlert))

\* C2: whenever the exception translator is invoked, with any thrown value and
\* any array of validation messages, it completes without throwing and writes
\* exactly one ErrorEnvelope as the response body.
C2_FilterAlwaysWritesOneEnvelope ==
  \A r \in Reqs :
    FilterInvoked(r)
      => /\ request[r].pc = "responded"
         /\ response[r].writtenBy = "filter"
         /\ Len(response[r].sent) = 1
         /\ response[r].sent[1].success = FALSE
         /\ response[r].sent[1].errorCategory \in ErrorCategory

\* C3: for every request the middleware stamps requestId, correlationId and
\* startTime before application logic runs, and after application logic exactly
\* one of the success transformer and the exception translator produces the
\* response body and its primary log entry: never both and never neither.
C3_StampedThenExactlyOneTerminal ==
  \A r \in Reqs :
    /\ request[r].pc \in {"routed", "handling", "responded", "filterThrew"}
         => Stamped(r) /\ request[r].startTime # 0
    /\ Len(response[r].sent) <= 1 /\ PrimaryCount(r) <= 1
    /\ Finished(r)
         => /\ Len(response[r].sent) = 1
            /\ PrimaryCount(r) = 1
            /\ response[r].writtenBy \in {"interceptor", "filter"}
            /\ \A i \in 1..Len(logs[r]) :
                 IsPrimary(logs[r][i]) => logs[r][i].by = response[r].writtenBy

\* a header that is in the request, whatever its value
Present(header) == header.t # "undefined"

\* the inbound correlation header when every header in the request counts as
\* present: the canonical one if present, else the legacy alias
InboundIfPresent(headers) ==
  IF Present(headers.xCorrelationId) THEN headers.xCorrelationId
  ELSE headers.xRequestId

\* the inbound correlation header when an empty-string canonical header counts
\* as absent
InboundIfNonEmpty(headers) ==
  IF headers.xCorrelationId = Undefined \/ headers.xCorrelationId = Str(<<>>)
    THEN headers.xRequestId
    ELSE headers.xCorrelationId

\* the values the inbound correlation headers carry
InboundValues(headers) ==
  {headers.xCorrelationId, headers.xRequestId}
    \cup {headers.xCorrelationId.a[i] : i \in 1..Len(headers.xCorrelationId.a)}
    \cup {headers.xRequestId.a[i] : i \in 1..Len(headers.xRequestId.a)}

\* what the claim says of the middleware's result for request r, inbound being
\* the inbound correlation header
CorrelationContract(r, inbound) ==
  /\ (~Present(request[r].headers.xCorrelationId)
        /\ ~Present(request[r].headers.xRequestId))
       => /\ response[r].headers.xCorrelationId = response[r].headers.xRequestId
          /\ Present(response[r].headers.xRequestId)
  /\ inbound.t = "string" => request[r].correlationId = inbound
  /\ inbound.t = "array"
       => request[r].correlationId =
            IF Len(inbound.a) > 0 THEN inbound.a[1] ELSE Undefined
  /\ response[r].headers.xRequestId = request[r].requestId
  /\ request[r].requestId \in {Uuid(n) : n \in 1..uuidCount}
  /\ request[r].requestId \notin InboundValues(request[r].headers)

\* C4 as stated: when neither x-correlation-id nor x-request-id is present
\* inbound, the response header x-correlation-id equals x-request-id; when an
\* inbound scalar correlation header is present its value is adopted verbatim as
\* correlationId (the first element when it is a sequence, the canonical header
\* taking precedence over the legacy alias), while x-request-id is a freshly
\* generated value not taken from the request.
C4_PresentHeaderAdopted ==
  \A r \in Reqs :
    Stamped(r) => CorrelationContract(r, InboundIfPresent(request[r].headers))

\* C4 as amended: the same, except that a canonical header that is the empty
\* string counts as absent, so that the legacy alias is the one adopted.
C4_NonEmptyHeaderAdopted ==
  \A r \in Reqs :
    Stamped(r) => CorrelationContract(r, InboundIfNonEmpty(request[r].headers))

\* the middleware has run on a request that carries both headers as strings,
\* and the canonical one was adopted
C4_Witness ==
  /\ Stamped(1)
  /\ request[1].headers.xCorrelationId = Str(H_trace)
  /\ request[1].headers.xRequestId = Str(H_old)
  /\ request[1].correlationId = Str(H_trace)
  /\ response[1].headers.xRequestId = Uuid(1)

\* C5: for every shape of the inbound correlation headers (absent, empty string,
\* non-empty string, empty sequence, non-empty sequence, on either name) the
\* middleware does not fail, assigns a defined non-empty correlationId (falling
\* back to requestId), sets both response headers and calls next exactly once.
C5_MiddlewareToleratesEveryShape ==
  \A r \in Reqs :
    Stamped(r)
      => /\ request[r].pc # "middlewareThrew"
         /\ request[r].correlationId.t = "string"
         /\ request[r].correlationId.s # <<>>
         /\ Present(response[r].headers.xRequestId)
         /\ Present(response[r].headers.xCorrelationId)
         /\ request[r].nextCalls = 1

\* C6: on both paths the slow-request warn entry (alertType SLOW_REQUEST) is
\* emitted exactly once for a request whose measured duration is strictly
\* greater than 3000 ms and not at all when it is 3000 ms or less, and it is
\* emitted in addition to the primary log entry.
C6_SlowAlertIffOverThreshold ==
  \A r \in Reqs :
    Finished(r)
      => /\ SlowAlertCount(r) =
              IF request[r].duration > SLOW_REQUEST_THRESHOLD_MS THEN 1 ELSE 0
         /\ SlowAlertCount(r) = 1 => PrimaryCount(r) = 1
         /\ \A i \in 1..Len(logs[r]) :
              IsSlowAlert(logs[r][i]) => logs[r][i].level = "warn"

\* C7: every response body carries a boolean success and a statusCode equal to
\* the HTTP status of that response: the exception translator writes
\* success=false with the status it passes to response.status, the success
\* transformer success=true with the response's status code.
C7_BodyStatusMatchesResponse ==
  \A r \in Reqs :
    \A i \in 1..Len(response[r].sent) :
      /\ response[r].sent[i].success \in BOOLEAN
      /\ response[r].sent[i].statusCode = response[r].statusCode
      /\ response[r].sent[i].success = (response[r].writtenBy = "interceptor")
      /\ response[r].writtenBy \in {"interceptor", "filter"}

\* the filter has written the envelope of a classified failure with status 409
C7_Witness ==
  /\ response[1].writtenBy = "filter"
  /\ request[1].caught.kind = "HttpException"
  /\ request[1].caught.status = 409
  /\ Len(response[1].sent) = 1
  /\ response[1].sent[1].statusCode = 409
  /\ response[1].statusCode = 409

\* the envelope the filter wrote for request r
FilterWrote(r) == response[r].writtenBy = "filter" /\ Len(response[r].sent) = 1

\* the message field of the payload of the classified failure request r raised
CaughtPayloadMessage(r) == GetProperty(request[r].caught.res, K_message)

F_email == <<"e", "m", "a", "i", "l">>

F_password == <<"p", "a", "s", "s", "w", "o", "r", "d">>

\* {email: ['email must be an email'], password: ['password too short']}
EmailPasswordErrors ==
  Obj(<<Entry(F_email, Arr(<<Str(M_email)>>)),
        Entry(F_password, Arr(<<Str(M_password)>>))>>)

ClaimedStatus(exception) ==
  IF exception.kind = "HttpException" THEN exception.status ELSE 500

\* the message the claim gives a thrown value, generic being the localized
\* generic message
ClaimedMessage(exception, generic) ==
  IF exception.kind = "HttpException" /\ exception.res.t = "object"
    THEN IF HasOwn(exception.res.o, K_message)
           THEN OwnValue(exception.res.o, K_message)
         ELSE IF HasOwn(exception.res.o, K_error)
           THEN OwnValue(exception.res.o, K_error)
         ELSE Str(M_Error)
  ELSE IF exception.kind = "HttpException" /\ exception.res.t = "string"
    THEN exception.res
  ELSE IF exception.kind = "Error" THEN Str(exception.message)
  ELSE generic

\* C12: the exception translator derives status and message as follows: a
\* classified (HTTP) failure gives its own status and, from a mapping payload,
\* message if present, else error, else the literal 'Error', or the payload
\* itself when it is a string; any other Error gives status 500 and its own text;
\* any other thrown value gives status 500 and the localized generic message.
C12_StatusAndMessageDerivation ==
  \A r \in Reqs :
    FilterWrote(r) =>
      LET envelope == response[r].sent[1]
      IN  /\ envelope.statusCode = ClaimedStatus(request[r].caught)
          /\ response[r].statusCode = ClaimedStatus(request[r].caught)
          /\ envelope.message =
               ClaimedMessage(request[r].caught, translate(envelope.lang))

\* the filter has answered a classified failure whose mapping payload has an
\* error field and no message field
C12_Witness ==
  /\ FilterWrote(1)
  /\ request[1].caught = HttpException(409, Obj(<<Entry(K_error, Str(M_BadRequest))>>))
  /\ response[1].sent[1].statusCode = 409
  /\ response[1].sent[1].message = Str(M_BadRequest)

\* the success envelope the interceptor wrote for request r
InterceptorWrote(r) ==
  response[r].writtenBy = "interceptor" /\ Len(response[r].sent) = 1

\* a handler result that is a mapping with a top-level message field
HasMessageField(result) == result.t = "object" /\ HasOwn(result.o, K_message)

\* message normalization as specified: strings pass through, sequences join with
\* ', ', numbers and booleans stringify, null and undefined give the generic
\* phrase, other objects are JSON-serialized
NormalizedMessage(value) ==
  CASE value.t = "string" -> value
    [] value.t = "array" ->
         Str(JoinStrings([i \in 1..Len(value.a) |-> value.a[i].s], M_sep))
    [] value.t \in {"number", "boolean"} -> Str(value.s)
    [] value.t \in {"null", "undefined"} -> Str(M_RequestSuccessful)
    [] OTHER -> JSONStringify(value)

\* C13: when the handler result is a mapping that contains a message field,
\* meta.message is that field's normalized value and data is the result with only
\* the top-level message field removed ({message:'ok', id:7} gives 'ok' and
\* {id:7}); when the result is not a mapping, or is a mapping without message,
\* data is the result unchanged and meta.message is 'Request successful'.
C13_MessageExtractedFromData ==
  \A r \in Reqs :
    InterceptorWrote(r) =>
      LET envelope == response[r].sent[1]
          result == request[r].result
      IN  /\ HasMessageField(result)
               => /\ envelope.message =
                       NormalizedMessage(OwnValue(result.o, K_message))
                  /\ envelope.data =
                       Obj(SelectSeq(result.o, LAMBDA e : e.k # K_message))
          /\ ~HasMessageField(result)
               => /\ envelope.data = result
                  /\ envelope.message = Str(M_RequestSuccessful)
          /\ result = Obj(<<Entry(K_message, Str(M_ok)), Entry(K_id, Num(<<"7">>))>>)
               => /\ envelope.message = Str(M_ok)
                  /\ envelope.data = Obj(<<Entry(K_id, Num(<<"7">>))>>)

\* the interceptor has wrapped {message: 'ok', id: 7}
C13_Witness ==
  /\ InterceptorWrote(1)
  /\ request[1].result = Obj(<<Entry(K_message, Str(M_ok)), Entry(K_id, Num(<<"7">>))>>)
  /\ response[1].sent[1].message = Str(M_ok)
  /\ response[1].sent[1].data = Obj(<<Entry(K_id, Num(<<"7">>))>>)

(***************************************************************************)
(* Properties of the client address resolver (checked under SpecFn)        *)
(***************************************************************************)
IpCalled == fin.op = "getClientIpInfo" /\ fout.done

RECURSIVE Flatten(_)

\* the concatenation of a sequence of sequences
Flatten(seqs) == IF seqs = <<>> THEN <<>> ELSE Head(seqs) \o Flatten(Tail(seqs))

\* the values of one header: the string itself, or the elements of a sequence
HeaderValues(value) ==
  IF value.t = "string" THEN <<value.s>>
  ELSE IF value.t = "array" THEN [i \in 1..Len(value.a) |-> value.a[i].s]
  ELSE <<>>

\* one header value split on commas, each part trimmed
SplitAndTrimmed(cs) ==
  LET parts == split(cs, ",") IN [i \in 1..Len(parts) |-> trim(parts[i])]

\* the candidates in collection order as the claim describes them: the five
\* proxy headers in their listed order, each split on commas and trimmed, then
\* the framework-resolved address, then the connection remote address
ClaimedCandidates(req) ==
  Flatten([n \in 1..Len(IpHeaders) |->
             LET values == HeaderValues(req.headers[IpHeaders[n]])
             IN  Flatten([i \in 1..Len(values) |-> SplitAndTrimmed(values[i])])])
    \o (IF req.ip.t = "string" THEN <<req.ip.s>> ELSE <<>>)
    \o (IF req.remoteAddress.t = "string" THEN <<req.remoteAddress.s>> ELSE <<>>)

HasColon(c) == \E i \in 1..Len(c) : c[i] = ":"

HasDot(c) == \E i \in 1..Len(c) : c[i] = "."

\* a candidate the claim gives to the IPv4 slot, and what it gives
IsIpv4Candidate(c) == startsWith(c, K_ffff) \/ (HasDot(c) /\ ~HasColon(c))

Ipv4Of(c) == IF startsWith(c, K_ffff) THEN SubSeq(c, 8, Len(c)) ELSE c

\* a candidate the claim gives to the IPv6 slot
IsIpv6Candidate(c) == HasColon(c) /\ ~startsWith(c, K_ffff)

A_pub4 == <<"2", "0", "3", ".", "0", ".", "1", "1", "3", ".", "5">>

\* x-forwarded-for '203.0.113.5, 10.0.0.1' and no IPv6 candidate
ForwardedForExample(req) ==
  /\ req.headers["x-forwarded-for"] = Str(A_pub4 \o <<",", " ", "1", "0", ".", "0", ".", "0", ".", "1">>)
  /\ \A i \in 1..Len(ClaimedCandidates(req)) : ~HasColon(ClaimedCandidates(req)[i])

\* C14: getClientIpInfo resolves each slot first-seen-wins over the candidates
\* in collection order (the five proxy headers in their listed order, each split
\* on commas and trimmed, then the framework-resolved address, then the
\* connection remote address): ipv4 is taken from the first candidate that is
\* either prefixed '::ffff:' (its suffix) or contains '.' and no ':'; ipv6 is the
\* first candidate containing ':' that is not prefixed '::ffff:'; a later
\* candidate never overwrites a filled slot.  With x-forwarded-for
\* '203.0.113.5, 10.0.0.1' and no IPv6 candidate the result is
\* ipv4='203.0.113.5', ipv6=''.
C14_FirstSeenWins ==
  IpCalled =>
    LET candidates == ClaimedCandidates(fin.request)
        first4 == SelectSeq(candidates, IsIpv4Candidate)
        first6 == SelectSeq(candidates, IsIpv6Candidate)
    IN  /\ fout.classified.ipv4 = IF first4 = <<>> THEN <<>> ELSE Ipv4Of(first4[1])
        /\ fout.classified.ipv6 = IF first6 = <<>> THEN <<>> ELSE first6[1]
        /\ ForwardedForExample(fin.request)
             => fout.v.ipv4 = A_pub4 /\ fout.v.ipv6 = <<>>

\* only the connection address '::1': no proxy header and no framework-resolved
\* address
OnlyConnectionLoopback(req) ==
  /\ \A n \in 1..Len(IpHeaders) : req.headers[IpHeaders[n]] = Undefined
  /\ req.ip = Undefined
  /\ req.remoteAddress = Str(A_lo6)

\* C15: after classification in getClientIpInfo, if ipv6 is '::1' and no IPv4
\* was found then ipv4 is '127.0.0.1'; if ipv4 is '127.0.0.1' and no IPv6 was
\* found then ipv6 is '::1'; in every other case the post-pass changes neither
\* slot; display is 'unknown' exactly when both slots are empty.  With only the
\* connection address '::1' the result is ipv4='127.0.0.1', ipv6='::1'.
C15_LoopbackDefaulting ==
  IpCalled =>
    LET found == fout.classified
        result == fout.v
        only6 == found.ipv6 = A_lo6 /\ found.ipv4 = <<>>
        only4 == found.ipv4 = A_lo4 /\ found.ipv6 = <<>>
    IN  /\ only6 => result.ipv4 = A_lo4 /\ result.ipv6 = A_lo6
        /\ only4 => result.ipv6 = A_lo6 /\ result.ipv4 = A_lo4
        /\ (~only6 /\ ~only4)
             => result.ipv4 = found.ipv4 /\ result.ipv6 = found.ipv6
        /\ (result.display = <<"u", "n", "k", "n", "o", "w", "n">>)
             <=> (result.ipv4 = <<>> /\ result.ipv6 = <<>>)
        /\ OnlyConnectionLoopback(fin.request)
             => result.ipv4 = A_lo4 /\ result.ipv6 = A_lo6

\* getClientIpInfo has returned for a request with only the connection address
\* '::1'
C15_Witness ==
  /\ IpCalled
  /\ OnlyConnectionLoopback(fin.request)
  /\ fout.classified = [ipv4 |-> <<>>, ipv6 |-> A_lo6]
  /\ fout.v.ipv4 = A_lo4
  /\ fout.v.ipv6 = A_lo6

\* the severity and the tags the claim gives the primary entry of a failure
ClaimedSeverity(status, category) ==
  IF status >= 500 THEN [level |-> "error", tags |-> {}]
  ELSE IF status = 404 THEN [level |-> "warn", tags |-> {}]
  ELSE IF status \in {401, 403} THEN [level |-> "warn", tags |-> {"securityAlert"}]
  ELSE IF status = 429 THEN [level |-> "warn", tags |-> {"rateLimitAlert"}]
  ELSE IF status >= 400
    THEN [level |-> IF category = "VALIDATION" THEN "log" ELSE "warn", tags |-> {}]
  ELSE [level |-> "log", tags |-> {}]

\* the primary entry of request r has the severity and the tags of the claim;
\* info severity is the logger's level "log"
PrimaryEntryAsClaimed(r) ==
  LET entry == SelectSeq(logs[r], IsPrimary)[1]
      claimed == ClaimedSeverity(entry.status, entry.errorCategory)
  IN  /\ entry.by = "filter"
      /\ entry.status = ClaimedStatus(request[r].caught)
      /\ entry.level = claimed.level
      /\ entry.tags = claimed.tags
      /\ (entry.stack # "none") <=> (entry.status >= 500)
      /\ (entry.status >= 500 /\ request[r].caught.kind # "value")
           => entry.stack = "stack"
      /\ entry.status = 422 => entry.level = "warn"
      /\ entry.status = 409 => entry.level = "log"

\* C16: the exception translator emits exactly one primary log entry per
\* failure, with severity and tags chosen by status: status >= 500 gives error
\* with the stack attached; 404 warn; 401 or 403 warn with securityAlert; 429 warn
\* with rateLimitAlert; any other 4xx info when the category is VALIDATION and
\* warn otherwise (422 logs at warn, 409 at info); any status below 400 info.
C16_OnePrimaryEntryBySeverity ==
  \A r \in Reqs :
    FilterInvoked(r) => PrimaryCount(r) = 1 /\ PrimaryEntryAsClaimed(r)

\* the info-severity entries the interceptor logged for request r
SuccessEntries(r) ==
  SelectSeq(logs[r], LAMBDA entry : entry.by = "interceptor" /\ entry.level = "log")

\* C17: the success transformer emits exactly one info-severity log entry per
\* successful request, and that entry contains a requestBody field only when the
\* request method is POST, PUT or PATCH and the body is an object; for every
\* other method (GET, DELETE, ...) no request body is logged.
C17_OneInfoEntryBodyOnlyIfMutating ==
  \A r \in Reqs :
    InterceptorWrote(r) =>
      /\ Len(SuccessEntries(r)) = 1
      /\ \A i \in 1..Len(logs[r]) :
           /\ logs[r][i].level = "log" => logs[r][i].by = "interceptor"
           /\ logs[r][i].requestBody # Undefined
                => /\ request[r].method \in {"POST", "PUT", "PATCH"}
                   /\ IsObjectLike(request[r].body)
           /\ request[r].method \notin {"POST", "PUT", "PATCH"}
                => logs[r][i].requestBody = Undefined

\* the interceptor has logged the masked body of a POST request
C17_Witness ==
  /\ InterceptorWrote(1)
  /\ request[1].method = "POST"
  /\ request[1].body = SensitiveBody
  /\ Len(SuccessEntries(1)) = 1
  /\ SuccessEntries(1)[1].requestBody # Undefined

(***************************************************************************)
(* Further properties of the masking utility (checked under SpecFn)        *)
(***************************************************************************)
MaskedTwice == fin.op = "maskSensitiveData" /\ fout.done /\ "again" \in DOMAIN fout

\* C18: masking is idempotent: for every nested structure x and the default
\* field set, maskSensitiveData(maskSensitiveData(x)) equals maskSensitiveData(x).
C18_MaskingIdempotent == MaskedTwice => fout.again = fout.v

(***************************************************************************)
(* Further properties of the request pipeline (checked under Spec)         *)
(***************************************************************************)
\* C19: the identifiers reported in a response body are the ones written to the
\* response headers by the correlation middleware: for every request, on both
\* the success and the failure path, the envelope's meta.requestId equals the
\* x-request-id response header and meta.correlationId equals the
\* x-correlation-id response header.
C19_EnvelopeIdsAreHeaderIds ==
  \A r \in Reqs :
    \A i \in 1..Len(response[r].sent) :
      /\ response[r].sent[i].requestId = response[r].headers.xRequestId
      /\ response[r].sent[i].correlationId = response[r].headers.xCorrelationId

\* request r has no active localization context, the interceptor resolved its
\* locale before the handler failed, and the filter wrote the envelope
BothLocalesResolved(r) ==
  /\ request[r].i18nLang = "none"
  /\ request[r].intercepted
  /\ FilterWrote(r)

\* C20 as stated: when no localization context is active, the exception
\* translator's fallback locale is different from the success transformer's
\* fallback locale (meta.lang differs between the two paths for the same
\* context-less request).
C20_FallbackLocalesDiffer ==
  \A r \in Reqs :
    BothLocalesResolved(r) => response[r].sent[1].lang # request[r].icLang

\* C20 as amended: when no localization context is active, the exception
\* translator's fallback locale is the same as the success transformer's, 'tr':
\* meta.lang is 'tr' on both paths for a context-less request.
C20_FallbackLocalesEqual ==
  \A r \in Reqs :
    /\ BothLocalesResolved(r)
         => /\ response[r].sent[1].lang = request[r].icLang
            /\ response[r].sent[1].lang = "tr"
    /\ (request[r].i18nLang = "none" /\ Len(response[r].sent) = 1)
         => response[r].sent[1].lang = "tr"

\* the filter has answered a context-less request the interceptor had started on
C20_Witness ==
  /\ BothLocalesResolved(1)
  /\ request[1].icLang = "tr"
  /\ response[1].sent[1].lang = "tr"

(***************************************************************************)
(* Properties of the validation error structure (checked under SpecFn)     *)
(***************************************************************************)
StructureCalled == fin.op = "structureValidationErrors" /\ fout.done

\* the first whitespace-delimited token of a message: its characters before
\* the first space or tab
FirstToken(cs) ==
  IF \E i \in 1..Len(cs) : cs[i] \in {" ", "\t"}
    THEN SubSeq(cs, 1, (CHOOSE i \in 1..Len(cs) :
                          /\ cs[i] \in {" ", "\t"}
                          /\ \A j \in 1..(i - 1) : cs[j] \notin {" ", "\t"}) - 1)
    ELSE cs

\* the key the claim files a message under
ClaimedField(msg) == IF FirstToken(msg.s) = <<>> THEN K_general ELSE FirstToken(msg.s)

\* the returned mapping files every message of the input once, under its
\* claimed key, in input order, and holds nothing else
FiledByFirstToken ==
  /\ fout.v.t = "object"
  /\ fout.v.p = <<>>
  /\ {fout.v.o[i].k : i \in 1..Len(fout.v.o)} = {ClaimedField(fin.messages.a[j]) : j \in 1..Len(fin.messages.a)}
  /\ \A i, j \in 1..Len(fout.v.o) : fout.v.o[i].k = fout.v.o[j].k => i = j
  /\ \A i \in 1..Len(fout.v.o) :
       LET sameToken(msg) == ClaimedField(msg) = fout.v.o[i].k
       IN  fout.v.o[i].v = Arr(SelectSeq(fin.messages.a, sameToken))

\* C21: structureValidationErrors returns, for every array of message strings,
\* a mapping in which each message appears exactly once, under its first
\* whitespace-delimited token ('general' when that token is empty), messages
\* with the same first token in one list in input order; it returns for every
\* first token, including 'constructor' and 'toString'.
C21_MessagesFiledByFirstToken ==
  StructureCalled => (~fout.threw /\ FiledByFirstToken)

(***************************************************************************)
(* Properties of message normalization (checked under SpecFn)              *)
(***************************************************************************)
FormatCalled == fin.op = "formatMessage" /\ fout.done

\* the string the claim gives a message, a BigInt counted as a number
ClaimedFormat(message) ==
  CASE message.t \in {"null", "undefined"} -> Str(M_RequestSuccessful)
    [] message.t = "string" -> message
    [] message.t = "array" -> Str(ArrayJoin(message, M_sep))
    [] message.t \in {"number", "boolean", "bigint"} -> Str(message.s)
    [] JSONThrows(message) \/ JSONStringify(message).t # "string" ->
         Str(M_RequestSuccessful)
    [] OTHER -> Str(JSONText(message))

\* C22: formatMessage returns a string for every input: a string unchanged, a
\* sequence joined with ', ', a number or boolean stringified, any other object
\* JSON-serialized, and 'Request successful' for null, undefined, and any value
\* whose serialization fails or yields no string.
C22_FormatMessageTotal ==
  FormatCalled => (fout.v.t = "string" /\ fout.v = ClaimedFormat(fin.message))

(***************************************************************************)
(* Properties of concurrently handled requests (checked under              *)
(* SpecConcurrent)                                                         *)
(***************************************************************************)
\* the envelopes and log entries of request r carry the identifiers stamped on
\* r, and its log entries the duration measured for r
CarriesOwnContext(r) ==
  /\ \A i \in 1..Len(response[r].sent) :
       /\ response[r].sent[i].requestId = request[r].requestId
       /\ response[r].sent[i].correlationId = request[r].correlationId
  /\ \A i \in 1..Len(logs[r]) :
       /\ logs[r][i].requestId = request[r].requestId
       /\ logs[r][i].correlationId = request[r].correlationId
       /\ logs[r][i].duration = request[r].duration

\* the requestIds of distinct stamped requests are distinct
RequestIdsDistinct ==
  \A r, q \in DOMAIN request :
    (r # q /\ request[r].requestId # Undefined /\ request[q].requestId # Undefined)
      => request[r].requestId # request[q].requestId

\* a step of one request leaves the other requests, their responses and their
\* log entries as they are, and measures duration from the request's own
\* startTime
StepOfOneRequest ==
  \A r \in DOMAIN request :
    /\ request'[r] # request[r] =>
         \A q \in DOMAIN request \ {r} :
           /\ request'[q] = request[q]
           /\ response'[q] = response[q]
           /\ logs'[q] = logs[q]
    /\ request'[r].duration # request[r].duration =>
         request'[r].duration = clock' - request[r].startTime

\* C23: for any interleaving of concurrently handled requests, each request's
\* envelope and log entries carry the requestId, correlationId and duration
\* stamped for that same request; the requestIds of distinct requests are
\* distinct, and no step of one request changes another request's context.
C23_RequestsIsolated ==
  /\ [](RequestIdsDistinct /\ \A r \in DOMAIN request : CarriesOwnContext(r))
  /\ [][StepOfOneRequest]_vars

(***************************************************************************)
(* Properties of the logged request body (checked under Spec)              *)
(***************************************************************************)
RECURSIVE HoldsSensitiveValue(_)

\* v holds, at some depth, a sensitive-named key whose value is not the marker
HoldsSensitiveValue(v) ==
  \/ \E i \in 1..Len(v.o) :
       \/ SensitiveName(v.o[i].k) /\ v.o[i].v # Str(MASK_STRING)
       \/ ~SensitiveName(v.o[i].k) /\ HoldsSensitiveValue(v.o[i].v)
  \/ \E i \in 1..Len(v.a) : HoldsSensitiveValue(v.a[i])
  \/ \E i \in 1..Len(v.p) : HoldsSensitiveValue(v.p[i])

\* the request body is a non-empty object
NonEmptyObjectBody(r) == IsObjectLike(request[r].body) /\ KeysLength(request[r].body) > 0

\* every log entry of r that holds a request body holds no original value of a
\* sensitive-named field
LoggedBodiesMasked(r) ==
  \A i \in 1..Len(logs[r]) :
    logs[r][i].requestBody # Undefined => ~HoldsSensitiveValue(logs[r][i].requestBody)

\* every log entry the filter wrote for r holds the request body
FilterLoggedBody(r) ==
  \A i \in 1..Len(logs[r]) :
    logs[r][i].by = "filter" => logs[r][i].requestBody # Undefined

\* C24: on both paths a logged request body is the masked copy: no log entry of
\* the success transformer or the exception translator holds the original value
\* of a sensitive-named body field; and the exception translator includes the
\* masked body for every method when the body is a non-empty object.
C24_LoggedBodyMasked ==
  \A r \in Reqs :
    /\ LoggedBodiesMasked(r)
    /\ NonEmptyObjectBody(r) => FilterLoggedBody(r)

(***************************************************************************)
(* Properties of the duration of an unstamped request (checked under       *)
(* SpecUnstamped)                                                          *)
(***************************************************************************)
Unstamped(r) == request[r].pc # "absent" /\ request[r].startTime = 0

\* the log entries the filter wrote for r
FilterEntries(r) == SelectSeq(logs[r], LAMBDA entry : entry.by = "filter")

SameFieldsButMessage(result, data) ==
  /\ data.t = "object"
  /\ data.p = result.p
  /\ \A i \in 1..Len(result.o) :
       result.o[i].k # K_message
         => /\ HasOwn(data.o, result.o[i].k)
            /\ OwnValue(data.o, result.o[i].k) = result.o[i].v
  /\ \A j \in 1..Len(data.o) :
       /\ data.o[j].k # K_message
       /\ HasOwn(result.o, data.o[j].k)

\* C26: the success transformer leaves the handler's payload otherwise
\* unchanged: apart from the removed top-level message field, every field of
\* data in the envelope, fields with sensitive names at any depth included, has
\* the value the handler returned; the response data is never masked.
C26_ResponseDataNotMasked ==
  \A r \in Reqs :
    InterceptorWrote(r) =>
      LET data == response[r].sent[1].data
          result == request[r].result
      IN  /\ IF result.t = "object"
               THEN SameFieldsButMessage(result, data)
               ELSE data = result
          /\ HoldsSensitiveValue(result) => HoldsSensitiveValue(data)

\* the interceptor has answered with a payload that holds a sensitive-named
\* field inside a sequence, next to a message field
C26_Witness ==
  /\ InterceptorWrote(1)
  /\ request[1].result =
       Obj(<<Entry(K_message, Str(M_ok)),
             Entry(K_name, Arr(<<Obj(<<Entry(K_PassWord, Str(V_p1))>>)>>))>>)
  /\ response[1].sent[1].data =
       Obj(<<Entry(K_name, Arr(<<Obj(<<Entry(K_PassWord, Str(V_p1))>>)>>))>>)
  /\ request[1].method = "POST"
  /\ logs[1][1].requestBody = maskSensitiveData(SensitiveBody)

====
